---- MODULE Spec2Model ----
(***************************************************************************)
(* Resume screener: the record validator (utils/validators.py), the Excel   *)
(* store (storage/excel_handler.py), the extraction tiers (extractors/)     *)
(* and the batch pipeline of the Streamlit page (app.py).                   *)
(*                                                                          *)
(* Python strings are sequences of one-character strings, so that strip,    *)
(* the regular expressions and the length thresholds are computed on the    *)
(* characters.  Dictionary keys and column names are only ever compared,    *)
(* and stay atomic strings.                                                 *)
(***************************************************************************)
EXTENDS Integers, Sequences, FiniteSets, TLC

VARIABLES
    raw,        \* validator run: the mapping handed to validate_resume_data
    v1,         \* validator run: validate_resume_data(raw), or Null
    v2,         \* validator run: validate_resume_data(v1), or Null
    files,      \* file system: path -> the workbook stored there
    dirs,       \* file system: the directories that exist
    last_save,  \* store run: arguments and outcome of the last save_to_excel
    n_saves,    \* store run: number of save_to_excel calls so far
    doc,        \* document run: the uploaded document and its environment
    outcome,    \* document run: what process_single_resume returned, or Null
    processed_data, \* app run: st.session_state.processed_data
    next_id,    \* app run: number of the next identifier generate_resume_id gives
    log,        \* app run: the process_resumes call, when it was the last operation, or Null
    n_uploaded, \* app run: number of files uploaded so far
    render,     \* render run: the file to render and the state of its libraries
    tmp,        \* render run: the temporary files that exist
    images,     \* render run: what the renderer returned, or Null
    rules_text, \* rules run: the argument of extract_with_rules
    rules_data, \* rules run: what extract_with_rules returned, or Null
    pdf_file,   \* PDF run: what each strategy gives for the file
    pdf_result, \* PDF run: what extract_text_from_pdf returned, or Null
    pending_delete_ids, \* app run: st.session_state['__pending_delete_ids__']
    show_confirm_modal, \* app run: st.session_state['__show_confirm_modal__']
    last_delete \* app run: the last confirmed deletion, or Null

vars == <<raw, v1, v2, files, dirs, last_save, n_saves, doc, outcome,
          processed_data, next_id, log, n_uploaded, render, tmp, images,
          rules_text, rules_data, pdf_file, pdf_result, pending_delete_ids,
          show_confirm_modal, last_delete>>
pdfVars == <<pdf_file, pdf_result>>
renderVars == <<render, tmp, images>>
rulesVars == <<rules_text, rules_data>>
docVars == <<doc, outcome>>
deleteVars == <<pending_delete_ids, show_confirm_modal, last_delete>>
appVars == <<processed_data, next_id, log, n_uploaded, deleteVars>>
validateVars == <<raw, v1, v2>>
storeVars == <<files, dirs, last_save, n_saves>>

Null == [t |-> "null", s |-> <<>>, n |-> 0]

----------------------------------------------------------------------------
(* Characters                                                               *)

LowerSeq == <<"a","b","c","d","e","f","g","h","i","j","k","l","m","n","o","p","q","r","s","t","u","v","w","x","y","z">>
UpperSeq == <<"A","B","C","D","E","F","G","H","I","J","K","L","M","N","O","P","Q","R","S","T","U","V","W","X","Y","Z">>
DigitSeq == <<"0","1","2","3","4","5","6","7","8","9">>

Range(f) == {f[i] : i \in DOMAIN f}

Lower == Range(LowerSeq)
Upper == Range(UpperSeq)
Digit == Range(DigitSeq)
Letter == Lower \cup Upper
\* str.isspace() characters of the ASCII range that TLA+ strings can hold
Space == {" ", "\t", "\n", "\r"}
\* the grave accent, which a TLA+ string cannot hold, is this one "character"
Backtick == "GRAVE"
\* the characters of the model, in code point order
AsciiSeq == <<"\t","\n","\r"," ","!","\"","#","$","%","&","'","(",")","*","+",",","-",".","/","0","1","2","3","4","5","6","7","8","9",":",";","<","=",">","?","@","A","B","C","D","E","F","G","H","I","J","K","L","M","N","O","P","Q","R","S","T","U","V","W","X","Y","Z","[","\\","]","^","_",Backtick,"a","b","c","d","e","f","g","h","i","j","k","l","m","n","o","p","q","r","s","t","u","v","w","x","y","z","{","|","}","~">>
AnyChar == Range(AsciiSeq)

Min(S) == CHOOSE x \in S : \A y \in S : x <= y
Max(S) == CHOOSE x \in S : \A y \in S : x >= y

IndexIn(c, q) == Min({i \in DOMAIN q : q[i] = c})
DigitVal(c) == IndexIn(c, DigitSeq) - 1

\* str.lower() on one character and on a string
LowerChar(c) == IF c \in Upper THEN LowerSeq[IndexIn(c, UpperSeq)] ELSE c
UpperChar(c) == IF c \in Lower THEN UpperSeq[IndexIn(c, LowerSeq)] ELSE c
ToLower(s) == [i \in DOMAIN s |-> LowerChar(s[i])]

----------------------------------------------------------------------------
(* String literals of the program                                           *)

NotFoundStr == <<"N","o","t"," ","F","o","u","n","d">>
NoneStr == <<"N","o","n","e">>
EmptyStr == <<>>

----------------------------------------------------------------------------
(* Python values: str, int, float (in hundredths), None, and the float NaN  *)
(* that pandas uses for a missing cell.                                     *)

PyString(s) == [t |-> "str", s |-> s, n |-> 0]
PyInt(n) == [t |-> "int", s |-> <<>>, n |-> n]
PyFloat(h) == [t |-> "float", s |-> <<>>, n |-> h]
None == [t |-> "none", s |-> <<>>, n |-> 0]
PyList(q) == [t |-> "list", s |-> q, n |-> Len(q)]
NaN == [t |-> "nan", s |-> <<>>, n |-> 0]

NotFound == PyString(NotFoundStr)

\* decimal digits of a natural number
RECURSIVE NatToStr(_)
NatToStr(n) ==
    IF n < 10 THEN <<DigitSeq[n + 1]>>
    ELSE NatToStr(n \div 10) \o <<DigitSeq[(n % 10) + 1]>>

Abs(n) == IF n < 0 THEN 0 - n ELSE n
SignStr(n) == IF n < 0 THEN <<"-">> ELSE <<>>

\* str(v): repr of a float keeps the shortest fractional part, at least one digit
PyStr(v) ==
    CASE v.t = "str" -> v.s
      [] v.t = "int" -> SignStr(v.n) \o NatToStr(Abs(v.n))
      [] v.t = "float" ->
            LET a == Abs(v.n)
                frac == a % 100
            IN  SignStr(v.n) \o NatToStr(a \div 100) \o <<".">> \o
                (IF frac % 10 = 0 THEN <<DigitSeq[(frac \div 10) + 1]>>
                 ELSE <<DigitSeq[(frac \div 10) + 1], DigitSeq[(frac % 10) + 1]>>)
      [] v.t = "none" -> NoneStr
      [] v.t = "nan" -> <<"n","a","n">>

\* str.strip(): drop every leading and trailing whitespace character
RECURSIVE LStrip(_)
LStrip(s) == IF s # <<>> /\ Head(s) \in Space THEN LStrip(Tail(s)) ELSE s

RECURSIVE RStrip(_)
RStrip(s) ==
    IF s # <<>> /\ s[Len(s)] \in Space THEN RStrip(SubSeq(s, 1, Len(s) - 1)) ELSE s

StripOnce(s) ==
    LET a == IF s # <<>> /\ Head(s) \in Space THEN Tail(s) ELSE s
    IN  IF a # <<>> /\ a[Len(a)] \in Space THEN SubSeq(a, 1, Len(a) - 1) ELSE a

Strip(s) == RStrip(LStrip(s))

----------------------------------------------------------------------------
(* Regular expressions, matched the way Python's backtracking matcher does: *)
(* Ends(r, s, i) lists the positions after every match of r that starts at  *)
(* position i of s, in the order the matcher tries them (greedy first), so  *)
(* its head is the match re.search / re.match reports.                      *)

Eps == [k |-> "eps"]
Set(cs) == [k |-> "set", cs |-> cs]
Cat(a, b) == [k |-> "cat", a |-> a, b |-> b]
Alt(a, b) == [k |-> "alt", a |-> a, b |-> b]
\* a{lo,hi}, greedy; hi = -1 is "no upper limit"
Rep(a, lo, hi) == [k |-> "rep", a |-> a, lo |-> lo, hi |-> hi]
Plus(a) == Rep(a, 1, -1)
Star(a) == Rep(a, 0, -1)
Opt(a) == Rep(a, 0, 1)
\* \b
WordBoundary == [k |-> "wb"]

RECURSIVE Lit(_)
Lit(s) == IF s = <<>> THEN Eps ELSE Cat(Set({Head(s)}), Lit(Tail(s)))

\* a literal under re.IGNORECASE
RECURSIVE LitI(_)
LitI(s) ==
    IF s = <<>> THEN Eps
    ELSE Cat(Set({LowerChar(Head(s)), UpperChar(Head(s))}), LitI(Tail(s)))

WordChar == Letter \cup Digit \cup {"_"}
IsWordAt(s, i) == i >= 1 /\ i <= Len(s) /\ s[i] \in WordChar

RECURSIVE Ends(_, _, _)
RECURSIVE EndsFrom(_, _, _)
RECURSIVE RepFrom(_, _, _, _)

Ends(r, s, i) ==
    CASE r.k = "eps" -> <<i>>
      [] r.k = "set" -> IF i <= Len(s) /\ s[i] \in r.cs THEN <<i + 1>> ELSE <<>>
      [] r.k = "wb" -> IF IsWordAt(s, i - 1) # IsWordAt(s, i) THEN <<i>> ELSE <<>>
      [] r.k = "cat" -> EndsFrom(r.b, s, Ends(r.a, s, i))
      [] r.k = "alt" -> Ends(r.a, s, i) \o Ends(r.b, s, i)
      [] r.k = "rep" ->
            (IF r.hi = 0 THEN <<>> ELSE RepFrom(r, s, i, Ends(r.a, s, i)))
            \o (IF r.lo <= 0 THEN <<i>> ELSE <<>>)

\* the matches of r that start at each of the positions es, in order
EndsFrom(r, s, es) ==
    IF es = <<>> THEN <<>>
    ELSE Ends(r, s, Head(es)) \o EndsFrom(r, s, Tail(es))

\* one more iteration of the repetition r was matched up to each of es
RepFrom(r, s, i, es) ==
    IF es = <<>> THEN <<>>
    ELSE (IF Head(es) > i
          THEN Ends(Rep(r.a, IF r.lo > 0 THEN r.lo - 1 ELSE 0,
                             IF r.hi = -1 THEN -1 ELSE r.hi - 1), s, Head(es))
          ELSE <<>>)
         \o RepFrom(r, s, i, Tail(es))

Matches(r, s, i) == Ends(r, s, i) # <<>>
\* re.match(r, s): the text matched at the start of s
HasMatchAtStart(r, s) == Matches(r, s, 1)
\* re.search(r, s)
Found(r, s) == \E i \in 1..(Len(s) + 1) : Matches(r, s, i)
SearchStart(r, s) == Min({i \in 1..(Len(s) + 1) : Matches(r, s, i)})
\* m.group(0) of re.search(r, s), when Found(r, s)
Group0(r, s) ==
    LET i == SearchStart(r, s)
    IN  SubSeq(s, i, Head(Ends(r, s, i)) - 1)

----------------------------------------------------------------------------
(* utils/validators.py                                                      *)

\* keys of validate_resume_data, in order
keys == <<"resume_id", "file_name", "upload_date", "name", "email", "phone",
          "highest_degree", "college_name", "graduation_year", "major", "cgpa",
          "total_experience_years", "current_company", "current_designation",
          "previous_companies", "technical_skills", "programming_languages",
          "frameworks_tools", "soft_skills", "certifications", "linkedin",
          "github">>
KeySet == Range(keys)

\* r"\d+": digits without a fractional part
FloatLikeReIntegerOnly == Plus(Set(Digit))

\* r"\d+(?:\.\d+)?"
FloatLikeRe == Cat(Plus(Set(Digit)), Opt(Cat(Set({"."}), Plus(Set(Digit)))))
\* r"\d{4}": any four digits, whatever the century
YearReAnyCentury == Rep(Set(Digit), 4, 4)

\* r"(19|20)\d{2}"
YearRe == Cat(Alt(Lit(<<"1","9">>), Lit(<<"2","0">>)), Rep(Set(Digit), 2, 2))

RECURSIVE DigitsToNat(_)
DigitsToNat(s) ==
    IF s = <<>> THEN 0
    ELSE 10 * DigitsToNat(SubSeq(s, 1, Len(s) - 1)) + DigitVal(s[Len(s)])

\* float("ddd") and float("ddd.ddd"), in hundredths (the third and later
\* fractional digits are below the resolution of the model)
ParseFloat(s) ==
    IF "." \in Range(s)
    THEN LET dot == IndexIn(".", s)
             fr == SubSeq(s, dot + 1, Len(s))
             f2 == IF Len(fr) = 1 THEN 10 * DigitVal(fr[1])
                   ELSE 10 * DigitVal(fr[1]) + DigitVal(fr[2])
         IN  100 * DigitsToNat(SubSeq(s, 1, dot - 1)) + f2
    ELSE 100 * DigitsToNat(s)

\* data.get(k, 'Not Found')
Get(data, k) == IF k \in DOMAIN data THEN data[k] ELSE NotFound

\* the branch for total_experience_years
CoerceExperience(v) ==
    IF v.t \in {"int", "float", "nan"}
    THEN (IF v.t = "int" THEN PyFloat(100 * v.n) ELSE v)
    ELSE LET str == PyStr(v)
         IN  IF Found(FloatLikeRe, str)
             THEN PyFloat(ParseFloat(Group0(FloatLikeRe, str)))
             ELSE PyFloat(0)

\* the branch for graduation_year; the result is a str, stripped below
CoerceYear(v) ==
    LET str == PyStr(v)
    IN  IF Found(YearRe, str) THEN PyString(Group0(YearRe, str)) ELSE PyString(EmptyStr)

StripValue(v) == IF v.t = "str" THEN PyString(Strip(v.s)) ELSE v

validate_resume_data_keep_extra(data) ==
    [k \in KeySet \cup DOMAIN data |->
        LET v == Get(data, k)
        IN  CASE k = "total_experience_years" -> CoerceExperience(v)
              [] k = "graduation_year" -> StripValue(CoerceYear(v))
              [] OTHER -> StripValue(v)]

validate_resume_data(data) ==
    [k \in KeySet |->
        LET v == Get(data, k)
        IN  CASE k = "total_experience_years" -> CoerceExperience(v)
              [] k = "graduation_year" -> StripValue(CoerceYear(v))
              [] OTHER -> StripValue(v)]

----------------------------------------------------------------------------
(* String methods used by the helpers and the extractors                    *)

\* s.startswith(p)
StartsWith(s, p) == Len(s) >= Len(p) /\ SubSeq(s, 1, Len(p)) = p

\* p in s
Contains(s, p) ==
    \E i \in 1..(Len(s) - Len(p) + 1) : SubSeq(s, i, i + Len(p) - 1) = p

\* s.replace(p, r, 1), for a non-empty p
ReplaceFirst(s, p, r) ==
    IF Contains(s, p)
    THEN LET i == Min({j \in 1..(Len(s) - Len(p) + 1) : SubSeq(s, j, j + Len(p) - 1) = p})
         IN  SubSeq(s, 1, i - 1) \o r \o SubSeq(s, i + Len(p), Len(s))
    ELSE s

\* s.strip(chars)
RECURSIVE StripChars(_, _)
StripChars(s, cs) ==
    IF s # <<>> /\ Head(s) \in cs THEN StripChars(Tail(s), cs)
    ELSE IF s # <<>> /\ s[Len(s)] \in cs THEN StripChars(SubSeq(s, 1, Len(s) - 1), cs)
    ELSE s

\* the pieces of s between the characters of seps (re.split on a character class)
RECURSIVE SplitOn(_, _)
SplitOn(s, seps) ==
    IF \E i \in DOMAIN s : s[i] \in seps
    THEN LET i == Min({j \in DOMAIN s : s[j] \in seps})
         IN  <<SubSeq(s, 1, i - 1)>> \o SplitOn(SubSeq(s, i + 1, Len(s)), seps)
    ELSE <<s>>

\* the non-empty elements of a list of strings
NonEmpty(q) == SelectSeq(q, LAMBDA x : x # <<>>)

\* s.split(): the words between runs of whitespace
SplitWs(s) == NonEmpty(SplitOn(s, Space))

\* s.splitlines(): lines end at \n, \r or \r\n; no empty last line
RECURSIVE SplitLines(_)
SplitLines(s) ==
    IF s = <<>> THEN <<>>
    ELSE IF \E i \in DOMAIN s : s[i] \in {"\n", "\r"}
    THEN LET i == Min({j \in DOMAIN s : s[j] \in {"\n", "\r"}})
             skip == IF s[i] = "\r" /\ i < Len(s) /\ s[i + 1] = "\n" THEN 2 ELSE 1
         IN  <<SubSeq(s, 1, i - 1)>> \o SplitLines(SubSeq(s, i + skip, Len(s)))
    ELSE <<s>>

\* sep.join(q)
RECURSIVE Join(_, _)
Join(q, sep) ==
    IF q = <<>> THEN <<>>
    ELSE IF Len(q) = 1 THEN q[1]
    ELSE q[1] \o sep \o Join(Tail(q), sep)

\* a < b for strings: code point order, a proper prefix first
Ord(c) == IndexIn(c, AsciiSeq)
RECURSIVE StrLess(_, _)
StrLess(a, b) ==
    IF b = <<>> THEN FALSE
    ELSE IF a = <<>> THEN TRUE
    ELSE IF Head(a) # Head(b) THEN Ord(Head(a)) < Ord(Head(b))
    ELSE StrLess(Tail(a), Tail(b))

\* sorted(S) for a set of strings
RECURSIVE SortedStrs(_)
SortedStrs(S) ==
    IF S = {} THEN <<>>
    ELSE LET m == CHOOSE x \in S : \A y \in S \ {x} : StrLess(x, y)
         IN  <<m>> \o SortedStrs(S \ {m})

----------------------------------------------------------------------------
(* utils/helpers.py                                                         *)

\* re.sub(r'\s+', ' ', s)
RECURSIVE CollapseRange(_, _, _)
CollapseRange(s, lo, hi) ==
    IF lo > hi THEN <<>>
    ELSE IF lo = hi
    THEN (IF s[lo] \notin Space THEN <<s[lo]>>
          ELSE IF lo = 1 \/ s[lo - 1] \notin Space THEN <<" ">>
          ELSE <<>>)
    ELSE LET mid == (lo + hi) \div 2
         IN  CollapseRange(s, lo, mid) \o CollapseRange(s, mid + 1, hi)

CollapseSpace(s) == CollapseRange(s, 1, Len(s))

clean_text(text) ==
    Strip(CollapseSpace([i \in DOMAIN text |->
                            IF text[i] \in {"\r", "\n"} THEN " " ELSE text[i]]))

\* generate_resume_id(): the n-th identifier that uuid4 hands out
generate_resume_id(n) == PyString(<<"u","u","i","d","-">> \o NatToStr(n))

----------------------------------------------------------------------------
(* extractors/langchain_extractor.py: the rule-based extractor              *)

\* r"[A-Za-z0-9._%+-]+@[A-Za-z0-9.-]+\.[A-Za-z]{2,}"
EmailRe ==
    Cat(Plus(Set(Letter \cup Digit \cup {".", "_", "%", "+", "-"})),
    Cat(Set({"@"}),
    Cat(Plus(Set(Letter \cup Digit \cup {".", "-"})),
    Cat(Set({"."}), Rep(Set(Letter), 2, -1)))))

\* [\s.-]?
PhoneSep == Opt(Set(Space \cup {".", "-"}))
\* r"(?:(?:\+?\d{1,3}[\s.-]?)?(?:\(\d{2,4}\)[\s.-]?)?\d{3,4}[\s.-]?\d{3,4}[\s.-]?\d{0,4})"
PhoneRe ==
    Cat(Opt(Cat(Opt(Set({"+"})), Cat(Rep(Set(Digit), 1, 3), PhoneSep))),
    Cat(Opt(Cat(Set({"("}), Cat(Rep(Set(Digit), 2, 4), Cat(Set({")"}), PhoneSep)))),
    Cat(Rep(Set(Digit), 3, 4),
    Cat(PhoneSep,
    Cat(Rep(Set(Digit), 3, 4),
    Cat(PhoneSep, Rep(Set(Digit), 0, 4)))))))

\* r"linkedin\.com\S*" and r"github\.com\S*", re.IGNORECASE
LinkedinRe == Cat(LitI(<<"l","i","n","k","e","d","i","n",".","c","o","m">>),
                  Star(Set(AnyChar \ Space)))
GithubRe == Cat(LitI(<<"g","i","t","h","u","b",".","c","o","m">>),
                Star(Set(AnyChar \ Space)))

\* r"@|linkedin|github|\d", re.I
NotNameRe ==
    Alt(Set({"@"}),
    Alt(LitI(<<"l","i","n","k","e","d","i","n">>),
    Alt(LitI(<<"g","i","t","h","u","b">>), Set(Digit))))

\* r"^skills\b", re.I
SkillsRe == Cat(LitI(<<"s","k","i","l","l","s">>), WordBoundary)

header_keywords == {<<"o","b","j","e","c","t","i","v","e">>,
    <<"s","u","m","m","a","r","y">>,
    <<"e","x","p","e","r","i","e","n","c","e">>,
    <<"e","d","u","c","a","t","i","o","n">>,
    <<"s","k","i","l","l","s">>}

\* degree_map, in insertion order
degree_map == <<
    <<<<"p","h","d">>, <<"P","h","D">>>>,
    <<<<"d","o","c","t","o","r">>, <<"P","h","D">>>>,
    <<<<"m","a","s","t","e","r","s">>, <<"M","a","s","t","e","r","s">>>>,
    <<<<"m","s">>, <<"M","a","s","t","e","r","s">>>>,
    <<<<"m",".","s">>, <<"M","a","s","t","e","r","s">>>>,
    <<<<"m",".","t","e","c","h">>, <<"M","a","s","t","e","r","s">>>>,
    <<<<"m","t","e","c","h">>, <<"M","a","s","t","e","r","s">>>>,
    <<<<"b","a","c","h","e","l","o","r","s">>, <<"B","a","c","h","e","l","o","r","s">>>>,
    <<<<"b","s">>, <<"B","a","c","h","e","l","o","r","s">>>>,
    <<<<"b",".","s">>, <<"B","a","c","h","e","l","o","r","s">>>>,
    <<<<"b",".","t","e","c","h">>, <<"B","a","c","h","e","l","o","r","s">>>>,
    <<<<"b","t","e","c","h">>, <<"B","a","c","h","e","l","o","r","s">>>>
>>

\* the 19 fields of ResumeFields and of the rule extractor's dictionary
ExtractedFields == KeySet \ {"resume_id", "file_name", "upload_date"}

\* a default that is the same text for every field
FieldDefaultText(k) == NotFound

\* the default of a field: ResumeFields defaults, data = {...} of the rules
FieldDefault(k) == IF k = "total_experience_years" THEN PyFloat(0) ELSE NotFound

\* lines = [ln.strip() for ln in text.splitlines() if ln.strip()]
StrippedLines(text) ==
    LET ls == SplitLines(text)
    IN  NonEmpty([i \in DOMAIN ls |-> Strip(ls[i])])

\* the name heuristic accepts the line ln
IsNameLine(ln) ==
    /\ Len(SplitWs(ln)) <= 6
    /\ ToLower(ln) \notin header_keywords
    /\ ~ Found(NotNameRe, ln)

RuleName(lines) ==
    LET first == SubSeq(lines, 1, IF Len(lines) < 10 THEN Len(lines) ELSE 10)
        ok == {i \in DOMAIN first : IsNameLine(first[i])}
    IN  IF ok = {} THEN NotFound ELSE PyString(first[Min(ok)])

RuleDegree(text) ==
    LET lowered == ToLower(text)
        hits == {i \in DOMAIN degree_map : Contains(lowered, degree_map[i][1])}
    IN  IF hits = {} THEN NotFound ELSE PyString(degree_map[Min(hits)][2])

RuleSkills(lines) ==
    LET at == {i \in DOMAIN lines : HasMatchAtStart(SkillsRe, lines[i])}
    IN  IF at = {} THEN NotFound
        ELSE LET i == Min(at)
                 last == IF i + 9 < Len(lines) THEN i + 9 ELSE Len(lines)
                 skills_section == Join(SubSeq(lines, i, last), <<" ">>)
                 parts == SplitOn(skills_section, {",", "|", "\n", ";"})
                 tokens == SortedStrs({Strip(parts[j]) : j \in
                                 {x \in DOMAIN parts : Len(Strip(parts[x])) >= 2}})
             IN  IF skills_section # <<>> /\ tokens # <<>>
                 THEN PyString(Join(tokens, <<",", " ">>))
                 ELSE NotFound

RulePhone(text) ==
    IF Found(PhoneRe, text) /\ Len(Strip(Group0(PhoneRe, text))) >= 10
    THEN PyString(Strip(Group0(PhoneRe, text)))
    ELSE NotFound

RuleFirst(re, text) == IF Found(re, text) THEN PyString(Group0(re, text)) ELSE NotFound

\* extract_with_rules(resume_text), resume_text a str or None
extract_with_rules(resume_text) ==
    LET text == IF resume_text.t = "str" THEN resume_text.s ELSE EmptyStr
        lines == StrippedLines(text)
    IN  [k \in ExtractedFields |->
            CASE k = "email" -> RuleFirst(EmailRe, text)
              [] k = "phone" -> RulePhone(text)
              [] k = "linkedin" -> RuleFirst(LinkedinRe, text)
              [] k = "github" -> RuleFirst(GithubRe, text)
              [] k = "name" -> RuleName(lines)
              [] k = "highest_degree" -> RuleDegree(text)
              [] k = "graduation_year" -> RuleFirst(YearRe, text)
              [] k = "technical_skills" -> RuleSkills(lines)
              [] OTHER -> FieldDefault(k)]

----------------------------------------------------------------------------
(* extractors/langchain_extractor.py: the text-model tier                   *)

\* shortest stripped text extract_with_langchain works on
MinModelTextLen == 20

\* v in ("Not Found", 0.0, "")
IsDefaultValue(v) == v \in {NotFound, PyFloat(0), PyInt(0), PyString(EmptyStr)}

\* the result of a tier: the dictionary and the calls made, in order
TierResult(data, calls) == [data |-> data, calls |-> calls]
EmptyDict == << >>

\* a text tier that asks the rule extractor after every answer of the model
\* and fills each default field from it
extract_with_langchain_rules_always(resume_text, llm) ==
    IF resume_text = <<>> \/ Len(Strip(resume_text)) < MinModelTextLen
    THEN TierResult(EmptyDict, <<>>)
    ELSE IF ~ llm.lib
    THEN TierResult(extract_with_rules(PyString(resume_text)), <<"rules">>)
    ELSE IF llm.raises
    THEN TierResult(extract_with_rules(PyString(resume_text)), <<"text_model", "rules">>)
    ELSE LET data == llm.output
             rule_data == extract_with_rules(PyString(resume_text))
         IN  TierResult([k \in DOMAIN data |->
                           IF k \in DOMAIN rule_data /\ IsDefaultValue(data[k])
                           THEN rule_data[k] ELSE data[k]],
                        <<"text_model", "rules">>)

\* a text tier without lines 68-73: the answer of the model is returned as
\* it is, whatever it holds
extract_with_langchain_model_only(resume_text, llm) ==
    IF resume_text = <<>> \/ Len(Strip(resume_text)) < MinModelTextLen
    THEN TierResult(EmptyDict, <<>>)
    ELSE IF ~ llm.lib
    THEN TierResult(extract_with_rules(PyString(resume_text)), <<"rules">>)
    ELSE IF llm.raises
    THEN TierResult(extract_with_rules(PyString(resume_text)), <<"text_model", "rules">>)
    ELSE TierResult(llm.output, <<"text_model">>)

\* extract_with_langchain(resume_text) in the environment llm:
\*   llm.lib     the langchain classes were imported (ChatOpenAI is not None)
\*   llm.raises  building the chain, the request or the output parsing raises
\*   llm.output  result.model_dump() otherwise
extract_with_langchain(resume_text, llm) ==
    IF resume_text = <<>> \/ Len(Strip(resume_text)) < MinModelTextLen
    THEN TierResult(EmptyDict, <<>>)
    ELSE IF ~ llm.lib
    THEN TierResult(extract_with_rules(PyString(resume_text)), <<"rules">>)
    ELSE IF llm.raises
    THEN TierResult(extract_with_rules(PyString(resume_text)), <<"text_model", "rules">>)
    ELSE LET data == llm.output
         IN  IF \A k \in DOMAIN data : IsDefaultValue(data[k])
             THEN LET rule_data == extract_with_rules(PyString(resume_text))
                  IN  TierResult([k \in DOMAIN data |->
                                    IF k \in DOMAIN rule_data /\ IsDefaultValue(data[k])
                                    THEN rule_data[k] ELSE data[k]],
                                 <<"text_model", "rules">>)
             ELSE TierResult(data, <<"text_model">>)

----------------------------------------------------------------------------
(* extractors/vision_extractor.py: the vision tier                          *)

AnnLee == <<"A","n","n"," ","L","e","e">>
JsonPlain == <<"{","\"","n","a","m","e","\"",":"," ","\"","A","n","n"," ","L","e","e","\"",","," ","\"","g","r","a","d","u","a","t","i","o","n","_","y","e","a","r","\"",":"," ","\"","2","0","1","9","\"","}">>
JsonIdentity == <<"{","\"","r","e","s","u","m","e","_","i","d","\"",":"," ","\"","X","1","\"",","," ","\"","f","i","l","e","_","n","a","m","e","\"",":"," ","\"","e","v","i","l",".","p","d","f","\"",","," ","\"","u","p","l","o","a","d","_","d","a","t","e","\"",":"," ","\"","n","e","v","e","r","\"",","," ","\"","n","a","m","e","\"",":"," ","\"","A","n","n"," ","L","e","e","\"","}">>
\* an object with a value that contains the text json, and the same object
\* with that text removed
JsonSkill == <<"{","\"","n","a","m","e","\"",":"," ","\"","A","n","n"," ","L","e","e","\"",","," ","\"","t","e","c","h","n","i","c","a","l","_","s","k","i","l","l","s","\"",":"," ","\"","j","s","o","n","\"","}">>
JsonSkillCut == <<"{","\"","n","a","m","e","\"",":"," ","\"","A","n","n"," ","L","e","e","\"",","," ","\"","t","e","c","h","n","i","c","a","l","_","s","k","i","l","l","s","\"",":"," ","\"","\"","}">>
JsonList == <<"[","]">>
JsonEmptyObject == <<"{","}">>

\* json.loads on the JSON documents of the model; any other text is a
\* JSONDecodeError
JsonDocuments == <<
    [text |-> JsonPlain, dict |-> TRUE,
     value |-> [name |-> PyString(AnnLee),
                graduation_year |-> PyString(<<"2","0","1","9">>)]],
    [text |-> JsonIdentity, dict |-> TRUE,
     value |-> [resume_id |-> PyString(<<"X","1">>),
                file_name |-> PyString(<<"e","v","i","l",".","p","d","f">>),
                upload_date |-> PyString(<<"n","e","v","e","r">>),
                name |-> PyString(AnnLee)]],
    [text |-> JsonSkill, dict |-> TRUE,
     value |-> [name |-> PyString(AnnLee),
                technical_skills |-> PyString(<<"j","s","o","n">>)]],
    [text |-> JsonSkillCut, dict |-> TRUE,
     value |-> [name |-> PyString(AnnLee), technical_skills |-> PyString(EmptyStr)]],
    [text |-> JsonEmptyObject, dict |-> TRUE, value |-> EmptyDict],
    [text |-> JsonList, dict |-> FALSE, value |-> EmptyDict]
>>
IsJson(text) == \E i \in DOMAIN JsonDocuments : JsonDocuments[i].text = text
JsonLoads(text) == JsonDocuments[CHOOSE i \in DOMAIN JsonDocuments : JsonDocuments[i].text = text]

\* lines 303-308: the text handed to json.loads for the message content
FenceStripped(content) ==
    LET text == Strip(IF content.t = "str" THEN content.s ELSE EmptyStr)
    IN  IF StartsWith(text, <<Backtick, Backtick, Backtick>>)
        THEN Strip(ReplaceFirst(StripChars(text, {Backtick}), <<"j","s","o","n">>, <<>>))
        ELSE text

\* the outcome of the vision tier: it returned data, or an exception left it
VisionResult(raised, data, calls) == [raised |-> raised, data |-> data, calls |-> calls]

\* extract_with_openai_vision(file_bytes, file_type) in the environment v:
\*   v.setup    "ok", or why no client exists: "no_bytes", "no_library",
\*              "no_api_key", "client_error"
\*   v.images   number of page images the renderer produced
\*   v.api      "raise" when the request or the access to its reply raises,
\*              "reply" otherwise, v.content being the message content
\* An exception inside the try block reaches "except json.JSONDecodeError"
\* while the local name json is still unbound (import json is the statement
\* after the request), so evaluating the clause raises UnboundLocalError and
\* no handler of the function catches it.
extract_with_openai_vision(v) ==
    IF v.setup # "ok" THEN VisionResult(FALSE, EmptyDict, <<>>)
    ELSE IF v.images = 0 THEN VisionResult(FALSE, EmptyDict, <<>>)
    ELSE IF v.api = "raise" THEN VisionResult(TRUE, EmptyDict, <<"vision_request">>)
    ELSE LET text == FenceStripped(v.content)
         IN  VisionResult(FALSE,
                          IF IsJson(text) /\ JsonLoads(text).dict
                          THEN JsonLoads(text).value ELSE EmptyDict,
                          <<"vision_request">>)

----------------------------------------------------------------------------
(* extractors/vision_extractor.py: rendering a file to page images          *)

\* the default of max_pages
max_pages == 3

\* a PDF as the renderer sees it: whether pdfium opens it, its number of
\* pages, and the page whose rendering raises (0 when none does)
PdfBytes(opens, page_count, fail_at) ==
    [opens |-> opens, page_count |-> page_count, fail_at |-> fail_at]

\* _pdf_to_images(pdf_bytes) where e.pdfium tells whether pypdfium2 and PIL
\* were imported; an image is represented by the number of its page.  The
\* except clause only prints, and the list built so far is returned.
pdf_to_images(e, pdf_bytes) ==
    IF ~ e.pdfium THEN <<>>
    ELSE IF ~ pdf_bytes.opens THEN <<>>
    ELSE LET n == Min({pdf_bytes.page_count, max_pages})
             rendered == IF pdf_bytes.fail_at \in 1..n THEN pdf_bytes.fail_at - 1 ELSE n
         IN  [i \in 1..rendered |-> i]

\* _docx_to_images_alternative(docx_bytes): the synthetic PDF is built in
\* memory; e.reportlab is "ok", "missing" or "raises"
docx_to_images_alternative(e) ==
    IF ~ e.Document \/ ~ e.pdfium THEN <<>>
    ELSE IF e.reportlab # "ok" THEN <<>>
    ELSE pdf_to_images(e, e.pdf)

\* the temporary files of one call
TmpDocx == "tmp_docx"
TmpPdfSoffice == "tmp_pdf_soffice"
ProducedPdf == "produced_pdf"
TmpPdfConvert == "tmp_pdf_convert"

RenderResult(imgs, left, attempts) == [images |-> imgs, tmp |-> left, attempts |-> attempts]

\* _docx_to_images(docx_bytes) with the temporary files t present before
\* the call; the result carries the temporary files present after it and
\* the conversions that were run, in order.
\*   e.soffice   "raises" (not installed or failed), "no_pdf" or "pdf"
\*   e.convert   whether docx2pdf was imported; e.convert_raises whether
\*               its conversion raises
docx_to_images(e, t) ==
    IF ~ e.pdfium \/ ~ e.Document
    THEN RenderResult(docx_to_images_alternative(e), t, <<"alternative">>)
    ELSE \* lines 91-93 create the DOCX, lines 99-100 the PDF placeholder
         LET created == t \cup {TmpDocx, TmpPdfSoffice}
         IN  IF e.soffice = "pdf"
             THEN \* lines 113-118 return the images of the produced PDF; the
                  \* inner finally unlinks the placeholder, the outer one
                  \* the DOCX; nothing unlinks produced_pdf
                  RenderResult(pdf_to_images(e, e.pdf),
                               (created \cup {ProducedPdf}) \ {TmpPdfSoffice, TmpDocx},
                               <<"soffice">>)
             ELSE LET after_soffice == created \ {TmpPdfSoffice}
                  IN  IF ~ e.convert
                      THEN \* ImportError, alternative method, outer finally
                           RenderResult(docx_to_images_alternative(e),
                                        after_soffice \ {TmpDocx},
                                        <<"soffice", "alternative">>)
                      ELSE IF e.convert_raises
                      THEN \* lines 132-147: tmp_pdf_path is set to None before
                           \* the exception is raised again, so the outer
                           \* finally skips the second placeholder
                           RenderResult(docx_to_images_alternative(e),
                                        (after_soffice \cup {TmpPdfConvert}) \ {TmpDocx},
                                        <<"soffice", "docx2pdf", "alternative">>)
                      ELSE RenderResult(pdf_to_images(e, e.pdf),
                                        (after_soffice \cup {TmpPdfConvert})
                                            \ {TmpPdfConvert, TmpDocx},
                                        <<"soffice", "docx2pdf">>)

----------------------------------------------------------------------------
(* parsers/pdf_parser.py                                                    *)

\* a digital-text strategy returns when its text is longer than this
PdfEnoughLen == 50
\* the OCR text is used when it is longer than this
OcrEnoughLen == 20

\* extract_text_from_pdf(file_content) in the environment pdf:
\*   pdf.plumber, pdf.pypdf   [text, raised]: the page texts the strategy
\*                            appended, and whether it then raised
\*   pdf.ocr                  the text of extract_text_with_ocr
\* The result is the text and the strategies that ran.
extract_text_from_pdf(pdf) ==
    LET text1 == pdf.plumber.text
        text2 == text1 \o pdf.pypdf.text
    IN  IF ~ pdf.plumber.raised /\ text1 # <<>> /\ Len(Strip(text1)) > PdfEnoughLen
        THEN [text |-> text1, attempts |-> <<"pdfplumber">>]
        ELSE IF ~ pdf.pypdf.raised /\ text2 # <<>> /\ Len(Strip(text2)) > PdfEnoughLen
        THEN [text |-> text2, attempts |-> <<"pdfplumber", "PyPDF2">>]
        ELSE IF Len(Strip(text2)) < PdfEnoughLen
        THEN (IF pdf.ocr # <<>> /\ Len(Strip(pdf.ocr)) > OcrEnoughLen
              THEN [text |-> pdf.ocr, attempts |-> <<"pdfplumber", "PyPDF2", "ocr">>]
              ELSE [text |-> text2, attempts |-> <<"pdfplumber", "PyPDF2", "ocr">>])
        ELSE [text |-> text2, attempts |-> <<"pdfplumber", "PyPDF2">>]

----------------------------------------------------------------------------
(* app.py: process_single_resume                                            *)

\* shortest stripped text the text tier accepts
MinTextLen == 50

\* Path(name).suffix of a file name without directories
Suffix(name) ==
    LET dots == {i \in DOMAIN name : name[i] = "."}
    IN  IF dots = {} \/ Max(dots) = Len(name)
           \/ \A i \in 1..(Max(dots) - 1) : name[i] = "."
        THEN <<>>
        ELSE SubSeq(name, Max(dots), Len(name))

\* datetime.now().strftime('%Y-%m-%d %H:%M:%S')
NowStr == <<"2","0","2","6","-","0","1","-","0","1"," ","0","9",":","0","0",":","0","0">>

\* {**a, **b}
MergeDicts(a, b) ==
    [k \in DOMAIN a \cup DOMAIN b |-> IF k \in DOMAIN b THEN b[k] ELSE a[k]]

\* lines 135-139: the identity fields of the n-th record
Base(d, n) ==
    [resume_id |-> generate_resume_id(n), file_name |-> PyString(d.name),
     upload_date |-> PyString(NowStr)]

\* what process_single_resume returns: a record, or None with the reason
Returned(record, calls) == [ok |-> TRUE, record |-> record, calls |-> calls, why |-> "record"]
ReturnedNone(calls, why) == [ok |-> FALSE, record |-> EmptyDict, calls |-> calls, why |-> why]

\* lines 130-141
FinishRecord(d, n, ai_data, calls) ==
    IF DOMAIN ai_data = {} THEN ReturnedNone(calls, "empty extraction")
    ELSE Returned(validate_resume_data(MergeDicts(Base(d, n), ai_data)), calls)

TextTierNoMinimum(d, n, text, calls) ==
    LET lc == extract_with_langchain(clean_text(text), d.llm)
    IN  FinishRecord(d, n, lc.data, calls \o <<"text_extract">> \o lc.calls)

\* lines 94-101 and 108-122: the text tier for the extracted text
TextTier(d, n, text, calls) ==
    IF text = <<>> \/ Len(Strip(text)) < MinTextLen
    THEN ReturnedNone(calls \o <<"text_extract">>, "insufficient text")
    ELSE LET lc == extract_with_langchain(clean_text(text), d.llm)
         IN  FinishRecord(d, n, lc.data, calls \o <<"text_extract">> \o lc.calls)

\* process_single_resume(file, file_content) for the document d, the record
\* taking the n-th identifier
process_single_resume(d, n) ==
    LET file_extension == ToLower(Suffix(d.name))
    IN  IF file_extension \notin {<<".","p","d","f">>, <<".","d","o","c","x">>,
                                  <<".","d","o","c">>}
        THEN ReturnedNone(<<>>, "unsupported format")
        ELSE LET vision == extract_with_openai_vision(d.vision)
             IN  IF vision.raised
                 THEN ReturnedNone(vision.calls, "exception")
                 ELSE IF DOMAIN vision.data # {}
                 THEN FinishRecord(d, n, vision.data, vision.calls)
                 ELSE TextTier(d, n,
                               IF file_extension = <<".","p","d","f">>
                               THEN extract_text_from_pdf(d.pdf).text
                               ELSE d.docx_text,
                               vision.calls)

----------------------------------------------------------------------------
(* pandas data frames, as storage/excel_handler.py uses them: an ordered    *)
(* list of column names and a list of rows, each row a mapping from the     *)
(* column names to cell values; a missing cell holds NaN.                   *)

Frame(cols, rows) == [cols |-> cols, rows |-> rows]
\* pd.DataFrame()
EmptyFrame == Frame(<<>>, <<>>)
\* DataFrame.empty: no rows or no columns
IsEmptyFrame(df) == df.cols = <<>> \/ df.rows = <<>>

\* pandas.isna on a cell
IsNA(v) == v.t \in {"nan", "none"}

\* the elements of q at the indices that satisfy keep, in order
RECURSIVE SelectIdx(_, _, _)
SelectIdx(q, keep, i) ==
    IF i > Len(q) THEN <<>>
    ELSE (IF i \in keep THEN <<q[i]>> ELSE <<>>) \o SelectIdx(q, keep, i + 1)

\* list(dict.fromkeys(q)): first occurrences, in order
Dedupe(q) == SelectIdx(q, {i \in DOMAIN q : \A j \in 1..(i - 1) : q[j] # q[i]}, 1)

\* df[cols]
SelectColumns(df, cols) ==
    Frame(cols, [i \in DOMAIN df.rows |-> [c \in Range(cols) |-> df.rows[i][c]]])

\* df.reindex(columns=cols): columns the frame lacks are all NaN
Reindex(df, cols) ==
    Frame(cols, [i \in DOMAIN df.rows |->
                    [c \in Range(cols) |->
                        IF c \in Range(df.cols) THEN df.rows[i][c] ELSE NaN]])

\* pd.concat([a, b], ignore_index=True): union of the columns, rows of a then b
Concat(a, b) ==
    LET cols == Dedupe(a.cols \o b.cols)
    IN  Frame(cols, Reindex(a, cols).rows \o Reindex(b, cols).rows)

\* two cells count as the same key for drop_duplicates (NaN equals NaN there)
SameKey(v, w) == v = w \/ (IsNA(v) /\ IsNA(w))

DropDuplicatesFirst(df, subset) ==
    Frame(df.cols,
          SelectIdx(df.rows,
                    {i \in DOMAIN df.rows :
                        ~ \E j \in 1..(i - 1) :
                            \A c \in subset : SameKey(df.rows[i][c], df.rows[j][c])},
                    1))

\* df.drop_duplicates(subset=subset, keep='last')
DropDuplicatesLast(df, subset) ==
    Frame(df.cols,
          SelectIdx(df.rows,
                    {i \in DOMAIN df.rows :
                        ~ \E j \in (i + 1)..Len(df.rows) :
                            \A c \in subset : SameKey(df.rows[i][c], df.rows[j][c])},
                    1))

\* df.fillna('Not Found')
FillNA(df) ==
    Frame(df.cols, [i \in DOMAIN df.rows |->
                      [c \in Range(df.cols) |->
                          IF IsNA(df.rows[i][c]) THEN NotFound ELSE df.rows[i][c]]])

----------------------------------------------------------------------------
(* The file system and the workbook files                                   *)

DefaultPath == "output/resume_data.xlsx"
CustomPath == "exports/resumes.xlsx"
Paths == {DefaultPath, CustomPath}
\* the directory a path lies in
ParentDir(p) == IF p = DefaultPath THEN "output" ELSE "exports"
AllDirs == {"output", "exports"}

\* what a path holds: nothing, a file that is not a readable workbook, or a sheet
Absent == [st |-> "absent", cols |-> <<>>, rows |-> <<>>]
Corrupt == [st |-> "corrupt", cols |-> <<>>, rows |-> <<>>]
Sheet(df) == [st |-> "sheet", cols |-> df.cols, rows |-> df.rows]

\* df.to_excel(path, index=False): a header row and one row per record; a
\* missing value and an empty string both leave the cell blank, and a frame
\* without columns leaves the sheet empty
ToExcel(df) ==
    IF df.cols = <<>> THEN Sheet(EmptyFrame)
    ELSE Sheet(Frame(df.cols,
                     [i \in DOMAIN df.rows |->
                        [c \in Range(df.cols) |->
                            IF IsNA(df.rows[i][c]) \/ df.rows[i][c] = PyString(EmptyStr)
                            THEN NaN ELSE df.rows[i][c]]]))

\* pd.read_excel(path) of a sheet: blank cells are read as NaN
ReadExcel(f) == Frame(f.cols, f.rows)

----------------------------------------------------------------------------
(* storage/excel_handler.py                                                 *)

NoColumns == <<>>

\* lines 9-14: restrict the columns if requested (an empty list requests nothing)
ColumnProjection(df, selected_columns) ==
    IF selected_columns # NoColumns
    THEN SelectColumns(df, SelectSeq(selected_columns, LAMBDA c : c \in Range(df.cols)))
    ELSE df

\* lines 17-24: the table to merge into
LoadExisting(fs, out_path) ==
    IF fs[out_path].st = "sheet" THEN ReadExcel(fs[out_path]) ELSE EmptyFrame

MergeFramesKeepFirst(existing, df_to_save) ==
    LET all_cols == Dedupe(existing.cols \o df_to_save.cols)
        combined == Frame(all_cols,
                          Reindex(existing, all_cols).rows
                          \o Reindex(df_to_save, all_cols).rows)
        deduped ==
            IF "resume_id" \in Range(all_cols)
            THEN DropDuplicatesFirst(combined, {"resume_id"})
            ELSE IF {"file_name", "upload_date"} \subseteq Range(all_cols)
            THEN DropDuplicatesFirst(combined, {"file_name", "upload_date"})
            ELSE combined
    IN  FillNA(deduped)

MergeFramesNewFirst(existing, df_to_save) ==
    LET all_cols == Dedupe(existing.cols \o df_to_save.cols)
        combined == Frame(all_cols,
                          Reindex(df_to_save, all_cols).rows
                          \o Reindex(existing, all_cols).rows)
        deduped ==
            IF "resume_id" \in Range(all_cols)
            THEN DropDuplicatesLast(combined, {"resume_id"})
            ELSE IF {"file_name", "upload_date"} \subseteq Range(all_cols)
            THEN DropDuplicatesLast(combined, {"file_name", "upload_date"})
            ELSE combined
    IN  FillNA(deduped)

\* lines 26-42: union of the columns, old rows then new rows, de-duplicated
MergeFrames(existing, df_to_save) ==
    LET all_cols == Dedupe(existing.cols \o df_to_save.cols)
        combined == Frame(all_cols,
                          Reindex(existing, all_cols).rows
                          \o Reindex(df_to_save, all_cols).rows)
        deduped ==
            IF "resume_id" \in Range(all_cols)
            THEN DropDuplicatesLast(combined, {"resume_id"})
            ELSE IF {"file_name", "upload_date"} \subseteq Range(all_cols)
            THEN DropDuplicatesLast(combined, {"file_name", "upload_date"})
            ELSE combined
    IN  FillNA(deduped)

FrameToWriteAlwaysMerge(fs, df, out_path, selected_columns, merge) ==
    MergeFrames(LoadExisting(fs, out_path), ColumnProjection(df, selected_columns))

\* the frame save_to_excel hands to to_excel
FrameToWrite(fs, df, out_path, selected_columns, merge) ==
    LET df_to_save == ColumnProjection(df, selected_columns)
    IN  IF merge THEN MergeFrames(LoadExisting(fs, out_path), df_to_save)
        ELSE FillNA(df_to_save)

\* to_excel raises when the directory of the path does not exist
WriteRaises(ds, out_path) == ParentDir(out_path) \notin ds

\* the directories after save_to_excel: Path('output').mkdir(exist_ok=True)
DirsAfterSave(ds) == ds \cup {"output"}

\* a save that gives up when the file to merge into cannot be read
FilesAfterSaveReadFails(fs, ds, df, out_path, selected_columns, merge) ==
    IF WriteRaises(DirsAfterSave(ds), out_path) THEN fs
    ELSE IF merge /\ fs[out_path].st = "corrupt" THEN fs
    ELSE [fs EXCEPT ![out_path] =
            ToExcel(FrameToWrite(fs, df, out_path, selected_columns, merge))]

\* the file system after save_to_excel(df, out_path, selected_columns, merge)
FilesAfterSave(fs, ds, df, out_path, selected_columns, merge) ==
    IF WriteRaises(DirsAfterSave(ds), out_path) THEN fs
    ELSE [fs EXCEPT ![out_path] =
            ToExcel(FrameToWrite(fs, df, out_path, selected_columns, merge))]

\* what a call that raised leaves in place of a value
Raised == [t |-> "raised", s |-> <<>>, n |-> 0]

\* load_from_excel(path): the table, Null for None when no file is there, or
\* Raised when read_excel cannot read the file
load_from_excel(fs, path) ==
    IF fs[path].st = "absent" THEN Null
    ELSE IF fs[path].st = "corrupt" THEN Raised
    ELSE ReadExcel(fs[path])

----------------------------------------------------------------------------
(* app.py: the session table, its hydration and process_resumes             *)

\* pd.to_numeric(v, errors='coerce') on a cell; numbers compare by value and
\* are kept as floats
ToNumeric(v) ==
    CASE v.t = "float" -> v
      [] v.t = "int" -> PyFloat(100 * v.n)
      [] v.t = "str" /\ (Len(v.s) + 1) \in Range(Ends(FloatLikeRe, v.s, 1)) ->
            PyFloat(ParseFloat(v.s))
      [] OTHER -> NaN

\* lines 78-80: total_experience_years made numeric with 0 for what is not a
\* number, then every missing cell filled with 'Not Found'
FillPersisted(persisted) ==
    FillNA(Frame(persisted.cols,
                 [i \in DOMAIN persisted.rows |->
                    [c \in Range(persisted.cols) |->
                        IF c = "total_experience_years"
                        THEN (IF IsNA(ToNumeric(persisted.rows[i][c])) THEN PyFloat(0)
                              ELSE ToNumeric(persisted.rows[i][c]))
                        ELSE persisted.rows[i][c]]]))

\* a script without lines 72-82: the table is never reloaded
NoHydrate(table, fs) == table

\* lines 72-82: the table after the hydration at the top of the script; an
\* exception of load_from_excel is passed over by the except clause
Hydrate(table, fs) ==
    IF ~ IsEmptyFrame(table) THEN table
    ELSE LET persisted == load_from_excel(fs, DefaultPath)
         IN  IF persisted = Raised \/ persisted = Null THEN table
             ELSE IF IsEmptyFrame(persisted) THEN table
             ELSE FillPersisted(persisted)

\* lines 209-223: the result of process_single_resume for each uploaded file,
\* the i-th file drawing the identifier first + i - 1
Results(uploaded_files, first) ==
    [i \in DOMAIN uploaded_files |->
        process_single_resume(uploaded_files[i], first + i - 1)]

\* the records of the files before the first one that gave none
ProcessedResumesUntilFailure(results) ==
    LET failed == {i \in DOMAIN results : ~ results[i].ok}
        last == IF failed = {} THEN Len(results) ELSE Min(failed) - 1
    IN  [i \in 1..last |-> results[i].record]

\* processed_resumes: the records of the files that gave one, in order
ProcessedResumes(results) ==
    LET done == SelectSeq(results, LAMBDA r : r.ok)
    IN  [i \in DOMAIN done |-> done[i].record]

\* lines 225-233: the session table after the batch
TableAfter(table, processed_resumes) ==
    IF processed_resumes = <<>> THEN table
    ELSE LET new_data == Frame(keys, processed_resumes)
         IN  IF IsEmptyFrame(table) THEN new_data ELSE Concat(table, new_data)

\* df[column].tolist() as a set; nothing for a frame without the column
ColumnValues(df, column) ==
    IF column \in Range(df.cols)
    THEN {df.rows[i][column] : i \in DOMAIN df.rows}
    ELSE {}

\* line 364 without the negation: the rows whose resume_id is among ids
OnlyIds(table, ids) ==
    Frame(table.cols, SelectSeq(table.rows, LAMBDA r : r["resume_id"] \in ids))

\* line 364: table[~table['resume_id'].isin(ids)].reset_index(drop=True)
WithoutIds(table, ids) ==
    Frame(table.cols, SelectSeq(table.rows, LAMBDA r : r["resume_id"] \notin ids))

----------------------------------------------------------------------------
(* Validator runs: a raw mapping is validated, then validated again         *)

\* keys a raw mapping may carry: three canonical ones and one that is not
RawKeys == {"name", "graduation_year", "total_experience_years", "nickname"}

RawValues(k) ==
    CASE k = "name" ->
            {PyString(<<" "," ","B","o","b"," ">>), PyString(<<"B","o","b">>),
             PyString(EmptyStr), None, PyInt(7)}
      [] k = "graduation_year" ->
            {PyString(<<"C","l","a","s","s"," ","o","f"," ","2","0","1","9",","," ","G","P","A"," ","3",".","8">>),
             PyString(<<"u","n","k","n","o","w","n">>),
             PyString(<<" ","1","8","9","9"," ","2","0","2","1"," ">>),
             NotFound, PyInt(2019), PyFloat(199950), None}
      [] k = "total_experience_years" ->
            {PyString(<<"5"," ","y","e","a","r","s"," ","3"," ","m","o","n","t","h","s">>),
             PyString(<<"n","/","a">>), PyString(<<"-","4",".","5">>), PyString(<<"+","7">>),
             PyString(<<"1","2",".","2","5">>), PyInt(3), PyInt(0 - 2), PyFloat(250),
             PyFloat(0 - 150), None}
      [] k = "nickname" -> {PyString(<<"B","o","b">>)}

RawMappings ==
    UNION {[ks -> UNION {RawValues(k) : k \in ks}] : ks \in SUBSET RawKeys}

RawInputs == {d \in RawMappings : \A k \in DOMAIN d : d[k] \in RawValues(k)}

InitValidate ==
    /\ raw \in RawInputs
    /\ v1 = Null
    /\ v2 = Null
    /\ files = [p \in Paths |-> Absent]
    /\ dirs = {}
    /\ last_save = Null
    /\ n_saves = 0
    /\ doc = Null
    /\ outcome = Null
    /\ processed_data = EmptyFrame
    /\ next_id = 1
    /\ log = Null
    /\ n_uploaded = 0
    /\ pending_delete_ids = {}
    /\ show_confirm_modal = FALSE
    /\ last_delete = Null
    /\ pdf_file = Null
    /\ pdf_result = Null
    /\ rules_text = None
    /\ rules_data = Null
    /\ render = Null
    /\ tmp = {}
    /\ images = Null

\* validate_resume_data(raw)
Validate ==
    /\ v1 = Null
    /\ v1' = validate_resume_data(raw)
    /\ UNCHANGED <<raw, v2, storeVars, docVars, appVars, renderVars, rulesVars, pdfVars>>

\* validate_resume_data applied to its own result
Revalidate ==
    /\ v1 # Null
    /\ v2 = Null
    /\ v2' = validate_resume_data(v1)
    /\ UNCHANGED <<raw, v1, storeVars, docVars, appVars, renderVars, rulesVars, pdfVars>>

NextValidate == Validate \/ Revalidate

SpecValidate == InitValidate /\ [][NextValidate]_vars

----------------------------------------------------------------------------
(* Store runs: save_to_excel is called with small frames, in either mode    *)

\* longest frame handed to save_to_excel
MaxRows == 2
\* number of save_to_excel calls of a run
MaxSaves == 1

IdA == PyString(<<"A">>)
IdB == PyString(<<"B">>)
NameOld == PyString(<<"O","l","d">>)
NameNew == PyString(<<"N","e","w">>)
Email1 == PyString(<<"a","@","b",".","c","o">>)
File1 == PyString(<<"c","v",".","p","d","f">>)
Date1 == PyString(<<"d","1">>)
Date2 == PyString(<<"d","2">>)

Row2(c1, x1, c2, x2) == [c \in {c1, c2} |-> IF c = c1 THEN x1 ELSE x2]

\* column lists of the frames handed to save_to_excel, and the rows over them
ColumnLists == {<<"resume_id", "name">>, <<"email", "resume_id">>,
                <<"file_name", "upload_date">>}

RowsOver(cols) ==
    CASE cols = <<"resume_id", "name">> ->
            {Row2("resume_id", IdA, "name", NameOld),
             Row2("resume_id", IdA, "name", NameNew),
             Row2("resume_id", IdB, "name", NameOld)}
      [] cols = <<"email", "resume_id">> ->
            {Row2("resume_id", IdB, "email", Email1),
             Row2("resume_id", IdA, "email", PyString(EmptyStr)),
             Row2("resume_id", IdB, "email", NaN)}
      [] cols = <<"file_name", "upload_date">> ->
            {Row2("file_name", File1, "upload_date", Date1),
             Row2("file_name", File1, "upload_date", Date2)}

SeqsUpTo(S, n) == UNION {[1..k -> S] : k \in 0..n}

StoreFrames ==
    UNION {{Frame(cols, rows) : rows \in SeqsUpTo(RowsOver(cols), MaxRows)} :
              cols \in ColumnLists}

\* a selected_columns argument that names a column no frame has
SomeColumns == <<"name", "resume_id", "phone">>

SaveCall(df, out_path, selected_columns, merge) ==
    [df |-> df, out_path |-> out_path, selected_columns |-> selected_columns,
     merge |-> merge]

\* the calls of a run: every frame to the default path in either mode, and
\* the frames of two different rows with a column selection or to the other
\* path
SaveCalls ==
    {SaveCall(df, DefaultPath, NoColumns, m) : df \in StoreFrames, m \in BOOLEAN}
    \cup {SaveCall(df, p, sel, m) :
            df \in {f \in StoreFrames : Len(f.rows) = 2 /\ f.rows[1] # f.rows[2]},
            p \in Paths, sel \in {SomeColumns}, m \in BOOLEAN}

\* the tables earlier runs left at the default path: one record, two records,
\* two records with one resume_id (saved in overwrite mode), other columns,
\* and no resume_id column
PersistedFrames ==
    {Frame(<<"resume_id", "name">>, <<Row2("resume_id", IdA, "name", NameOld)>>),
     Frame(<<"resume_id", "name">>, <<Row2("resume_id", IdA, "name", NameOld),
                                      Row2("resume_id", IdB, "name", NameOld)>>),
     Frame(<<"resume_id", "name">>, <<Row2("resume_id", IdA, "name", NameOld),
                                      Row2("resume_id", IdA, "name", NameNew)>>),
     Frame(<<"email", "resume_id">>, <<Row2("resume_id", IdB, "email", Email1),
                                       Row2("resume_id", IdA, "email", PyString(EmptyStr))>>),
     Frame(<<"file_name", "upload_date">>, <<Row2("file_name", File1, "upload_date", Date1)>>)}
PersistedFiles == {ToExcel(FillNA(f)) : f \in PersistedFrames}

InitStore ==
    /\ raw = << >>
    /\ v1 = Null
    /\ v2 = Null
    /\ dirs \in {{}, {"output"}}
    /\ files \in {fs \in [Paths -> {Absent, Corrupt} \cup PersistedFiles] :
                     /\ \A p \in Paths : fs[p] # Absent => ParentDir(p) \in dirs
                     /\ fs[CustomPath] \notin PersistedFiles}
    /\ last_save = Null
    /\ n_saves = 0
    /\ doc = Null
    /\ outcome = Null
    /\ processed_data = EmptyFrame
    /\ next_id = 1
    /\ log = Null
    /\ n_uploaded = 0
    /\ pending_delete_ids = {}
    /\ show_confirm_modal = FALSE
    /\ last_delete = Null
    /\ pdf_file = Null
    /\ pdf_result = Null
    /\ rules_text = None
    /\ rules_data = Null
    /\ render = Null
    /\ tmp = {}
    /\ images = Null

\* save_to_excel(df, out_path, selected_columns, merge)
SaveToExcel(df, out_path, selected_columns, merge) ==
    /\ n_saves < MaxSaves
    /\ n_saves' = n_saves + 1
    /\ files' = FilesAfterSave(files, dirs, df, out_path, selected_columns, merge)
    /\ dirs' = DirsAfterSave(dirs)
    /\ last_save' = [df |-> df, out_path |-> out_path,
                     selected_columns |-> selected_columns, merge |-> merge,
                     before |-> files[out_path],
                     raised |-> WriteRaises(DirsAfterSave(dirs), out_path)]
    /\ UNCHANGED <<validateVars, docVars, appVars, renderVars, rulesVars, pdfVars>>

NextStore ==
    \E c \in SaveCalls : SaveToExcel(c.df, c.out_path, c.selected_columns, c.merge)

SpecStore == InitStore /\ [][NextStore]_vars

----------------------------------------------------------------------------
(* Document runs: process_single_resume is applied to one uploaded document *)

\* the message contents of the vision model
ReplyFencedJson == <<Backtick,Backtick,Backtick,"j","s","o","n","\n","{","\"","n","a","m","e","\"",":"," ","\"","A","n","n"," ","L","e","e","\"",","," ","\"","g","r","a","d","u","a","t","i","o","n","_","y","e","a","r","\"",":"," ","\"","2","0","1","9","\"","}","\n",Backtick,Backtick,Backtick>>
ReplyFenced == <<Backtick,Backtick,Backtick,"\n","{","\"","n","a","m","e","\"",":"," ","\"","A","n","n"," ","L","e","e","\"",","," ","\"","g","r","a","d","u","a","t","i","o","n","_","y","e","a","r","\"",":"," ","\"","2","0","1","9","\"","}","\n",Backtick,Backtick,Backtick>>
\* a JSON text between triple-backtick fences, after an optional marker
Fenced(marker, body) ==
    <<Backtick, Backtick, Backtick>> \o marker \o <<"\n">> \o body \o <<"\n">>
        \o <<Backtick, Backtick, Backtick>>
ReplyFencedSkill == Fenced(<<>>, JsonSkill)
ReplyFencedJsonSkill == Fenced(<<"j","s","o","n">>, JsonSkill)
ReplyProse == <<"S","o","r","r","y",","," ","I"," ","c","a","n","n","o","t"," ","r","e","a","d"," ","t","h","i","s"," ","f","i","l","e",".">>

NoVision(setup) == [setup |-> setup, images |-> 0, api |-> "reply", content |-> None]
VisionRaises == [setup |-> "ok", images |-> 2, api |-> "raise", content |-> None]
VisionReplies(content) == [setup |-> "ok", images |-> 1, api |-> "reply", content |-> content]
VisionNoImages == [setup |-> "ok", images |-> 0, api |-> "reply", content |-> None]

VisionCases ==
    {NoVision("no_library"), NoVision("no_api_key"), VisionNoImages, VisionRaises}
    \cup {VisionReplies(c) :
            c \in {PyString(JsonPlain), PyString(JsonIdentity), PyString(JsonList),
                   PyString(JsonEmptyObject), PyString(ReplyFencedJson),
                   PyString(ReplyFenced), PyString(ReplyProse), None,
                   PyString(ReplyFencedSkill), PyString(ReplyFencedJsonSkill)}}

\* texts of an exact length: a prefix, filler words and a full stop
FillerWord == <<"w","o","r","d"," ">>
Filler(n) == [i \in 1..n |-> FillerWord[((i - 1) % 5) + 1]]
TextOfLen(prefix, n) == prefix \o Filler(n - Len(prefix) - 1) \o <<".">>

NameAndYear == <<"A","n","n"," ","L","e","e"," ","2","0","1","9"," ">>
NameOnly == <<"A","n","n"," ","L","e","e"," ">>
Text49 == TextOfLen(NameAndYear, 49)
Text50 == TextOfLen(NameOnly, 50)
Text51 == TextOfLen(NameAndYear, 51)
Text30 == TextOfLen(NameOnly, 30)
\* 49 characters between leading and trailing white space
TextPadded49 == <<" ", "\n", " ">> \o Text49 \o <<" ", " ", "\n", "\t">>
\* two letters 60 blanks apart
TextSparse == <<"a">> \o [i \in 1..60 |-> " "] \o <<"b">>
TextRich == <<"A","n","n"," ","L","e","e","\n","a","n","n","@","x",".","i","o","\n","B",".","T","e","c","h"," ","2","0","1","9","\n","S","k","i","l","l","s",":"," ","p","y",","," ","s","q","l","\n">> \o Filler(19) \o <<".">>

NoPage == [text |-> <<>>, raised |-> FALSE]
Pdf(plumber, pypdf, ocr) == [plumber |-> plumber, pypdf |-> pypdf, ocr |-> ocr]

\* the text sources of a document: what the PDF strategies give and what
\* extract_text_from_docx gives
TextSource(pdf, docx_text) == [pdf |-> pdf, docx_text |-> docx_text]
TextSources ==
    {TextSource(Pdf([text |-> t, raised |-> FALSE], NoPage, <<>>), t) :
        t \in {<<>>, Text49, Text50, Text51, TextPadded49, TextSparse, TextRich}}
    \cup {TextSource(Pdf([text |-> <<>>, raised |-> TRUE],
                         [text |-> Text51, raised |-> FALSE], <<>>), Text51),
          TextSource(Pdf([text |-> Text30, raised |-> FALSE],
                         [text |-> Text30, raised |-> TRUE], <<>>), Text30),
          TextSource(Pdf(NoPage, [text |-> <<>>, raised |-> TRUE], Text51), Text51),
          TextSource(Pdf([text |-> Text30, raised |-> FALSE], NoPage, Text30), Text30)}

\* the text model: unavailable, failing, or answering
DefaultOutput == [k \in ExtractedFields |-> FieldDefault(k)]
Llm(lib, raises, output) == [lib |-> lib, raises |-> raises, output |-> output]
LlmCases ==
    {Llm(FALSE, FALSE, DefaultOutput), Llm(TRUE, TRUE, DefaultOutput),
     Llm(TRUE, FALSE, DefaultOutput),
     Llm(TRUE, FALSE, [DefaultOutput EXCEPT !["name"] = PyString(<<"B","o","b">>)]),
     Llm(TRUE, FALSE, [DefaultOutput EXCEPT !["graduation_year"] = PyString(EmptyStr)])}

FileNames == {<<"c","v",".","p","d","f">>, <<"C","V",".","D","O","C","X">>, <<"c","v",".","d","o","c">>, <<"c","v",".","t","x","t">>}

Document(name, vision, source, llm) ==
    [name |-> name, vision |-> vision, pdf |-> source.pdf,
     docx_text |-> source.docx_text, llm |-> llm]
Documents ==
    {Document(nm, v, src, l) :
        nm \in FileNames, v \in VisionCases, src \in TextSources, l \in LlmCases}

InitDoc ==
    /\ raw = << >>
    /\ v1 = Null
    /\ v2 = Null
    /\ files = [p \in Paths |-> Absent]
    /\ dirs = {}
    /\ last_save = Null
    /\ n_saves = 0
    /\ doc \in Documents
    /\ outcome = Null
    /\ processed_data = EmptyFrame
    /\ next_id = 1
    /\ log = Null
    /\ n_uploaded = 0
    /\ pending_delete_ids = {}
    /\ show_confirm_modal = FALSE
    /\ last_delete = Null
    /\ pdf_file = Null
    /\ pdf_result = Null
    /\ rules_text = None
    /\ rules_data = Null
    /\ render = Null
    /\ tmp = {}
    /\ images = Null

\* process_single_resume(file, file_content), the record taking identifier 1
ProcessSingleResume ==
    /\ outcome = Null
    /\ outcome' = process_single_resume(doc, 1)
    /\ UNCHANGED <<validateVars, storeVars, doc, appVars, renderVars, rulesVars, pdfVars>>

NextDoc == ProcessSingleResume

SpecDoc == InitDoc /\ [][NextDoc]_vars

----------------------------------------------------------------------------
(* App runs: sessions of the Streamlit script with batches of uploads       *)

\* number of files uploaded in a run, over all its batches
MaxUploads == 2

PdfName == <<"c","v",".","p","d","f">>
DocxName == <<"C","V",".","D","O","C","X">>
PlainSource(t) == TextSource(Pdf([text |-> t, raised |-> FALSE], NoPage, <<>>), t)

\* vision unavailable, 49 characters of text
DocShort49 ==
    Document(PdfName, NoVision("no_api_key"), PlainSource(Text49),
             Llm(FALSE, FALSE, DefaultOutput))
\* no page image, 49 characters of text inside white space
DocPadded49 ==
    Document(DocxName, VisionNoImages, PlainSource(TextPadded49),
             Llm(TRUE, TRUE, DefaultOutput))
\* the vision model answers with a JSON object
DocVision ==
    Document(PdfName, VisionReplies(PyString(ReplyFencedJson)), PlainSource(Text30),
             Llm(FALSE, FALSE, DefaultOutput))
\* vision unavailable, the text model fails, the rules read the text
DocRules ==
    Document(DocxName, NoVision("no_library"), PlainSource(TextRich),
             Llm(TRUE, TRUE, DefaultOutput))
\* vision unavailable, 50 characters of text
DocText50 ==
    Document(PdfName, NoVision("no_library"), PlainSource(Text50),
             Llm(FALSE, FALSE, DefaultOutput))
\* the vision model answers in prose, no text at all
DocNoText ==
    Document(PdfName, VisionReplies(PyString(ReplyProse)), PlainSource(<<>>),
             Llm(TRUE, FALSE, DefaultOutput))

\* the vision request raises, 51 characters of text
DocVisionRaises ==
    Document(DocxName, VisionRaises, PlainSource(Text51),
             Llm(FALSE, FALSE, DefaultOutput))

\* the vision model answers with a JSON object that carries a resume_id
DocIdentity ==
    Document(PdfName, VisionReplies(PyString(JsonIdentity)), PlainSource(Text30),
             Llm(FALSE, FALSE, DefaultOutput))

AppDocuments ==
    {DocShort49, DocPadded49, DocIdentity, DocRules, DocText50, DocNoText, DocVisionRaises}
Batches == UNION {[1..k -> AppDocuments] : k \in 1..MaxUploads}

\* a workbook left by an earlier session
PersistedSheet ==
    ToExcel(FillNA(Frame(keys, <<process_single_resume(DocVision, 0).record>>)))

InitApp ==
    /\ raw = << >>
    /\ v1 = Null
    /\ v2 = Null
    /\ \/ files = [p \in Paths |-> Absent] /\ dirs = {}
       \/ files = [p \in Paths |-> IF p = DefaultPath THEN Corrupt ELSE Absent]
          /\ dirs = {"output"}
       \/ files = [p \in Paths |-> IF p = DefaultPath THEN PersistedSheet ELSE Absent]
          /\ dirs = {"output"}
    /\ last_save = Null
    /\ n_saves = 0
    /\ doc = Null
    /\ outcome = Null
    /\ processed_data = EmptyFrame
    /\ next_id = 1
    /\ log = Null
    /\ n_uploaded = 0
    /\ pending_delete_ids = {}
    /\ show_confirm_modal = FALSE
    /\ last_delete = Null
    /\ pdf_file = Null
    /\ pdf_result = Null
    /\ rules_text = None
    /\ rules_data = Null
    /\ render = Null
    /\ tmp = {}
    /\ images = Null

\* a run of the script that processes nothing: lines 66-82
Rerun ==
    /\ IsEmptyFrame(processed_data)
    /\ processed_data' = Hydrate(processed_data, files)
    /\ last_delete' = Null
    /\ UNCHANGED <<validateVars, storeVars, docVars, next_id, log, n_uploaded, renderVars, rulesVars, pdfVars,
                   pending_delete_ids, show_confirm_modal>>

\* a new browser session: lines 67-70 start it with an empty table and
\* without the keys of the deletion dialog
NewSession ==
    /\ ~ IsEmptyFrame(processed_data)
    /\ processed_data' = EmptyFrame
    /\ log' = Null
    /\ pending_delete_ids' = {}
    /\ show_confirm_modal' = FALSE
    /\ last_delete' = Null
    /\ UNCHANGED <<validateVars, storeVars, docVars, next_id, n_uploaded, renderVars, rulesVars, pdfVars>>

\* the "Delete selected" button (lines 351-354): the script runs from the
\* top, the page shows the table, and the identifiers ticked in the editor
\* become the pending selection
DeleteSelected ==
    /\ \E hydrated \in {Hydrate(processed_data, files)} :
       \E selected_ids \in SUBSET ColumnValues(hydrated, "resume_id") :
          /\ ~ IsEmptyFrame(hydrated)
          /\ selected_ids # {}
          /\ processed_data' = hydrated
          /\ pending_delete_ids' = selected_ids
    /\ show_confirm_modal' = TRUE
    /\ last_delete' = Null
    /\ log' = Null
    /\ UNCHANGED <<validateVars, storeVars, docVars, next_id, n_uploaded, renderVars, rulesVars, pdfVars>>

\* the "Confirm" button of the dialog (lines 357-371): the rows of the
\* pending selection leave the table, the table is saved in overwrite mode,
\* the dialog keys are cleared and the script runs again from the top
ConfirmDelete ==
    /\ show_confirm_modal
    /\ \E hydrated \in {Hydrate(processed_data, files)} :
       \E table \in {WithoutIds(hydrated, pending_delete_ids)} :
       \E saved \in {FilesAfterSave(files, dirs, table, DefaultPath, NoColumns, FALSE)} :
          /\ ~ IsEmptyFrame(hydrated)
          /\ "resume_id" \in Range(hydrated.cols)
          /\ files' = saved
          /\ dirs' = DirsAfterSave(dirs)
          /\ processed_data' = Hydrate(table, saved)
          /\ last_delete' = [before |-> hydrated, ids |-> pending_delete_ids,
                             persisted |-> files[DefaultPath]]
    /\ show_confirm_modal' = FALSE
    /\ pending_delete_ids' = {}
    /\ log' = Null
    /\ UNCHANGED <<validateVars, docVars, last_save, n_saves, next_id, n_uploaded, renderVars, rulesVars, pdfVars>>

\* the "Cancel" button of the dialog (lines 373-375)
CancelDelete ==
    /\ show_confirm_modal
    /\ show_confirm_modal' = FALSE
    /\ pending_delete_ids' = {}
    /\ last_delete' = Null
    /\ UNCHANGED <<validateVars, storeVars, docVars, processed_data, next_id, log, n_uploaded, renderVars, rulesVars, pdfVars>>

\* the "Process Resumes" button: the script runs from the top (hydration),
\* then process_resumes(uploaded_files) with its save in overwrite mode
ProcessResumes(uploaded_files) ==
    /\ n_uploaded + Len(uploaded_files) <= MaxUploads
    /\ \E hydrated \in {Hydrate(processed_data, files)} :
       \E results \in {Results(uploaded_files, next_id)} :
       \E processed_resumes \in {ProcessedResumes(results)} :
       \E table \in {TableAfter(hydrated, processed_resumes)} :
          /\ processed_data' = table
          /\ files' = IF processed_resumes = <<>> THEN files
                      ELSE FilesAfterSave(files, dirs, table, DefaultPath, NoColumns, FALSE)
          /\ dirs' = IF processed_resumes = <<>> THEN dirs ELSE DirsAfterSave(dirs)
          /\ log' = [before |-> hydrated, uploaded_files |-> uploaded_files,
                     results |-> results, persisted |-> files[DefaultPath]]
    /\ next_id' = next_id + Len(uploaded_files)
    /\ n_uploaded' = n_uploaded + Len(uploaded_files)
    /\ last_delete' = Null
    /\ UNCHANGED <<validateVars, docVars, last_save, n_saves, renderVars, rulesVars, pdfVars,
                   pending_delete_ids, show_confirm_modal>>

Next ==
    \/ Rerun
    \/ NewSession
    \/ \E uploaded_files \in Batches : ProcessResumes(uploaded_files)
    \/ DeleteSelected
    \/ ConfirmDelete
    \/ CancelDelete

Spec == InitApp /\ [][Next]_vars

----------------------------------------------------------------------------
(* Properties of the store (checked under SpecStore)                        *)

\* the last call wrote its workbook
Saved == last_save # Null /\ ~ last_save.raised
\* the frame of the last call after the column projection
GivenFrame == ColumnProjection(last_save.df, last_save.selected_columns)
\* the table that was at the path before the last call, as read_excel reads it
OldFrame ==
    IF last_save.before.st = "sheet" THEN ReadExcel(last_save.before) ELSE EmptyFrame
\* the table at the path after the last call
WrittenFrame == ReadExcel(files[last_save.out_path])

\* a cell that holds a value: neither missing nor the empty string
HasValue(v) == ~ IsNA(v) /\ v # PyString(EmptyStr)
\* the resume_id values that the rows of a frame carry
IdsOf(df) ==
    IF "resume_id" \in Range(df.cols)
    THEN {df.rows[i]["resume_id"] : i \in DOMAIN df.rows} \ {NaN, NotFound}
    ELSE {}
RowsWithId(df, id) == {i \in DOMAIN df.rows : df.rows[i]["resume_id"] = id}
DistinctIds(df) ==
    /\ "resume_id" \in Range(df.cols)
    /\ \A i \in DOMAIN df.rows : HasValue(df.rows[i]["resume_id"])
    /\ \A i, j \in DOMAIN df.rows :
          i # j => df.rows[i]["resume_id"] # df.rows[j]["resume_id"]

\* what the written table shows for the cell c of a row of a frame with the
\* columns cols: the value, 'Not Found' for a missing cell or a column the
\* frame lacks, a blank for an empty string that was not read from a file
Shown(r, cols, c) ==
    IF c \in Range(cols) /\ ~ IsNA(r[c])
    THEN (IF r[c] = PyString(EmptyStr) THEN NaN ELSE r[c])
    ELSE NotFound
ShownRow(r, cols, all) == [c \in Range(all) |-> Shown(r, cols, c)]

\* C6: after a save in merge mode every resume_id of an old or a new row is
\* on exactly one row of the table, and the row of a resume_id that a new
\* row carries shows the values of the last new row with that resume_id.
C6_MergeKeepsLast ==
    (Saved /\ last_save.merge) =>
        /\ \A id \in IdsOf(OldFrame) \cup IdsOf(GivenFrame) :
              Cardinality(RowsWithId(WrittenFrame, id)) = 1
        /\ \A id \in IdsOf(GivenFrame) :
              \A k \in RowsWithId(WrittenFrame, id) :
                  WrittenFrame.rows[k] =
                      ShownRow(GivenFrame.rows[Max(RowsWithId(GivenFrame, id))],
                               GivenFrame.cols, WrittenFrame.cols)

\* the store held {A, Old} and {A, New} was merged into it
C6_Witness ==
    /\ Saved /\ last_save.merge
    /\ \E i \in DOMAIN OldFrame.rows :
          OldFrame.rows[i] = Row2("resume_id", IdA, "name", NameOld)
    /\ \E i \in DOMAIN GivenFrame.rows :
          GivenFrame.rows[i] = Row2("resume_id", IdA, "name", NameNew)
    /\ IdsOf(GivenFrame) = {IdA}

\* C7: after a save in overwrite mode the table has the projected columns
\* and, row for row, the given records: nothing of the previous table is
\* left and no given row is dropped or de-duplicated.
C7_OverwriteWritesGiven ==
    (Saved /\ ~ last_save.merge) =>
        /\ files[last_save.out_path].st = "sheet"
        /\ WrittenFrame.cols = GivenFrame.cols
        /\ GivenFrame.cols # <<>> =>
              /\ Len(WrittenFrame.rows) = Len(GivenFrame.rows)
              /\ \A i \in DOMAIN GivenFrame.rows :
                    WrittenFrame.rows[i] =
                        ShownRow(GivenFrame.rows[i], GivenFrame.cols, GivenFrame.cols)

\* a table with rows was overwritten by two records with the same resume_id
C7_Witness ==
    /\ Saved /\ ~ last_save.merge
    /\ OldFrame.rows # <<>>
    /\ Len(GivenFrame.rows) = 2
    /\ "resume_id" \in Range(GivenFrame.cols)
    /\ GivenFrame.rows[1]["resume_id"] = GivenFrame.rows[2]["resume_id"]
    /\ GivenFrame.rows[1] # GivenFrame.rows[2]

\* the written table is the old rows followed by the new rows, over the
\* union of the columns, the cells a row lacks being 'Not Found'
OldThenNew ==
    LET all == Dedupe(OldFrame.cols \o GivenFrame.cols)
    IN  /\ WrittenFrame.cols = all
        /\ WrittenFrame.rows =
              [i \in DOMAIN OldFrame.rows |->
                  ShownRow(OldFrame.rows[i], OldFrame.cols, all)]
              \o [i \in DOMAIN GivenFrame.rows |->
                  ShownRow(GivenFrame.rows[i], GivenFrame.cols, all)]

\* the new records have pairwise distinct resume_ids, none of them persisted
NewIdsDisjoint ==
    /\ DistinctIds(GivenFrame)
    /\ IdsOf(GivenFrame) \cap IdsOf(OldFrame) = {}

\* C8 as stated: a merge of new records with pairwise distinct resume_ids,
\* disjoint from the persisted ones, leaves every old row followed by every
\* new row.
C8_DisjointMergeAppends ==
    (Saved /\ last_save.merge /\ NewIdsDisjoint) => OldThenNew

\* C8 amended: the same, when the persisted rows also have pairwise distinct
\* resume_ids.
C8_DisjointMergeAppendsDistinctOld ==
    (Saved /\ last_save.merge /\ NewIdsDisjoint
        /\ (OldFrame.rows # <<>> => DistinctIds(OldFrame)))
    => OldThenNew

\* a record was merged into a table that holds a row with another resume_id
\* and lacks one of the record's columns
C8_Witness ==
    /\ Saved /\ last_save.merge /\ NewIdsDisjoint
    /\ OldFrame.rows # <<>> /\ DistinctIds(OldFrame)
    /\ GivenFrame.rows # <<>>
    /\ Range(GivenFrame.cols) \ Range(OldFrame.cols) # {}
    /\ Range(OldFrame.cols) \ Range(GivenFrame.cols) # {}

\* C19 as stated: after save_to_excel the directory of the target path
\* exists and the write did not fail for want of it, for the default path and
\* for a path the caller gave.
C19_DirectoryCreated ==
    last_save # Null =>
        /\ ParentDir(last_save.out_path) \in dirs
        /\ ~ last_save.raised

\* the columns that identify a record of a frame when duplicates are dropped
DedupeKey(df) ==
    IF "resume_id" \in Range(df.cols) THEN {"resume_id"}
    ELSE IF {"file_name", "upload_date"} \subseteq Range(df.cols)
    THEN {"file_name", "upload_date"}
    ELSE {}

\* the records of a frame without those that a later record repeats
LastOfEach(df) ==
    SelectIdx(df.rows,
              {i \in DOMAIN df.rows :
                  DedupeKey(df) = {} \/
                  ~ \E j \in (i + 1)..Len(df.rows) :
                        \A c \in DedupeKey(df) : df.rows[j][c] = df.rows[i][c]},
              1)

\* C20: a save in merge mode onto a file that cannot be read does not fail,
\* and the table then at the path holds the new records alone, without
\* repeated records and with 'Not Found' in every missing cell.
C20_UnreadableFileIsEmptyBase ==
    (last_save # Null /\ last_save.merge /\ last_save.before.st = "corrupt") =>
        /\ ~ last_save.raised
        /\ files[last_save.out_path].st = "sheet"
        /\ IF GivenFrame.cols = <<>> THEN WrittenFrame = EmptyFrame
           ELSE /\ WrittenFrame.cols = GivenFrame.cols
                /\ WrittenFrame.rows =
                      [i \in DOMAIN LastOfEach(GivenFrame) |->
                          ShownRow(LastOfEach(GivenFrame)[i], GivenFrame.cols,
                                   GivenFrame.cols)]

\* two records, the second repeating the resume_id of the first and with a
\* missing cell, were merged onto an unreadable file
C20_Witness ==
    /\ last_save # Null
    /\ last_save.merge
    /\ last_save.before.st = "corrupt"
    /\ Len(GivenFrame.rows) = 2
    /\ \E c \in Range(GivenFrame.cols) : IsNA(GivenFrame.rows[2][c])
    /\ Len(WrittenFrame.rows) = 1
    /\ NotFound \in Range(WrittenFrame.rows[1])

\* the old rows followed by the new rows over the union of the columns, as
\* the written table shows them
CombinedShown ==
    LET all == Dedupe(OldFrame.cols \o GivenFrame.cols)
    IN  [i \in DOMAIN OldFrame.rows |-> ShownRow(OldFrame.rows[i], OldFrame.cols, all)]
        \o [i \in DOMAIN GivenFrame.rows |->
               ShownRow(GivenFrame.rows[i], GivenFrame.cols, all)]
\* the row carries a resume_id value
CarriesId(r) == HasValue(r["resume_id"]) /\ r["resume_id"] # NotFound
\* the rows that no later row with the same resume_id value replaces
NotReplaced ==
    {i \in DOMAIN CombinedShown :
        ~ \E j \in (i + 1)..Len(CombinedShown) :
            /\ CarriesId(CombinedShown[i])
            /\ CombinedShown[j]["resume_id"] = CombinedShown[i]["resume_id"]}
\* some old or new row has no resume_id value
SomeRowWithoutId == \E i \in DOMAIN CombinedShown : ~ CarriesId(CombinedShown[i])

\* C28: a save in merge mode into a table that has a resume_id column, or of
\* a frame that has one, drops a row only when a later row carries the same
\* resume_id value: the written table holds, in order, every other old and
\* new row, the rows without a resume_id value included.
C28_OnlySharedIdDropped ==
    (Saved /\ last_save.merge
        /\ "resume_id" \in Range(OldFrame.cols) \cup Range(GivenFrame.cols))
    => WrittenFrame.rows = SelectIdx(CombinedShown, NotReplaced, 1)

\* the same for the saves in which every old and new row carries a resume_id
C28_OnlySharedIdDroppedAllWithId ==
    (Saved /\ last_save.merge
        /\ "resume_id" \in Range(OldFrame.cols) \cup Range(GivenFrame.cols)
        /\ ~ SomeRowWithoutId)
    => WrittenFrame.rows = SelectIdx(CombinedShown, NotReplaced, 1)

----------------------------------------------------------------------------
(* Properties of the validator (checked under SpecValidate)                 *)

\* C9: validate_resume_data is idempotent: validating a validated record
\* gives the same record, field for field.
C9_ValidateIdempotent == v2 # Null => v2 = v1

\* a raw mapping that validation changed was validated twice
C9_Witness ==
    /\ v2 # Null
    /\ "name" \in DOMAIN raw
    /\ raw["name"] # v1["name"]
    /\ "graduation_year" \in DOMAIN raw
    /\ raw["graduation_year"] # v1["graduation_year"]

\* C10 as stated: the result has exactly the canonical keys and every key
\* missing from the input is 'Not Found', total_experience_years being 0.0.
C10_MissingAreNotFound ==
    v1 # Null =>
        /\ DOMAIN v1 = KeySet
        /\ \A k \in KeySet \ DOMAIN raw :
              v1[k] = IF k = "total_experience_years" THEN PyFloat(0) ELSE NotFound

\* C10 amended: the result has exactly the canonical keys and every key
\* missing from the input is 'Not Found', except total_experience_years,
\* which is 0.0, and graduation_year, which is the empty string.
C10_MissingAreDefaulted ==
    v1 # Null =>
        /\ DOMAIN v1 = KeySet
        /\ \A k \in KeySet \ DOMAIN raw :
              v1[k] = CASE k = "total_experience_years" -> PyFloat(0)
                        [] k = "graduation_year" -> PyString(EmptyStr)
                        [] OTHER -> NotFound

\* a mapping with a key outside the canonical list and without a name,
\* a graduation year or an experience was validated
C10_Witness ==
    /\ v1 # Null
    /\ "nickname" \in DOMAIN raw
    /\ DOMAIN raw \cap {"name", "graduation_year", "total_experience_years"} = {}

\* C11 as stated: in every validated record total_experience_years is a
\* float greater than or equal to 0, whatever the input value was.
C11_ExperienceNonNegative ==
    v1 # Null =>
        /\ v1["total_experience_years"].t = "float"
        /\ v1["total_experience_years"].n >= 0

\* the positions of s where a 19xx or 20xx group of four digits starts
YearStarts(s) ==
    {i \in 1..(Len(s) - 3) :
        /\ <<s[i], s[i + 1]>> \in {<<"1","9">>, <<"2","0">>}
        /\ s[i + 2] \in Digit
        /\ s[i + 3] \in Digit}

\* the text of the graduation_year given to the validator
RawYearText == PyStr(Get(raw, "graduation_year"))

\* C12: in every validated record graduation_year is the first 19xx/20xx
\* group of four digits of the input value (so a string of four digits
\* between 1900 and 2099), or the empty string when the input has none.
C12_YearIsFirstMatch ==
    v1 # Null =>
        LET y == v1["graduation_year"]
            at == YearStarts(RawYearText)
        IN  /\ y.t = "str"
            /\ at = {} => y.s = EmptyStr
            /\ at # {} =>
                  /\ y.s = SubSeq(RawYearText, Min(at), Min(at) + 3)
                  /\ Len(y.s) = 4
                  /\ \A i \in 1..4 : y.s[i] \in Digit
                  /\ DigitsToNat(y.s) \in 1900..2099

\* a value with an earlier group of four digits outside 1900-2099 and
\* surrounding spaces was validated, and the later year was kept
C12_Witness ==
    /\ v1 # Null
    /\ "graduation_year" \in DOMAIN raw
    /\ raw["graduation_year"] = PyString(<<" ","1","8","9","9"," ","2","0","2","1"," ">>)
    /\ v1["graduation_year"] = PyString(<<"2","0","2","1">>)

\* the end of the run of digits of s that starts at position i
DigitsEnd(s, i) ==
    Max({j \in i..Len(s) : \A x \in i..j : s[x] \in Digit})

\* the value, in hundredths, of the first float-like substring of s: the
\* first run of digits, with the point and the digits after it when a digit
\* follows the point; 0 when s has no digit
FirstFloatLike(s) ==
    LET at == {i \in DOMAIN s : s[i] \in Digit}
    IN  IF at = {} THEN 0
        ELSE LET i == Min(at)
                 j == DigitsEnd(s, i)
                 whole == DigitsToNat(SubSeq(s, i, j))
             IN  IF j + 2 <= Len(s) /\ s[j + 1] = "." /\ s[j + 2] \in Digit
                 THEN LET e == DigitsEnd(s, j + 2)
                          tenths == DigitVal(s[j + 2])
                          hundredths == IF e >= j + 3 THEN DigitVal(s[j + 3]) ELSE 0
                      IN  100 * whole + 10 * tenths + hundredths
                 ELSE 100 * whole

\* the total_experience_years given to the validator
RawExperience == Get(raw, "total_experience_years")

\* C21: total_experience_years of the validated record is the input as a
\* float when the input is a number, the value of the first float-like
\* substring when the input is a string, and 0.0 when there is none.
C21_ExperienceCoerced ==
    v1 # Null =>
        v1["total_experience_years"] =
            CASE RawExperience.t = "int" -> PyFloat(100 * RawExperience.n)
              [] RawExperience.t = "float" -> RawExperience
              [] OTHER -> PyFloat(FirstFloatLike(PyStr(RawExperience)))

\* '5 years 3 months' was validated to 5.0
C21_Witness ==
    /\ v1 # Null
    /\ RawExperience = PyString(<<"5"," ","y","e","a","r","s"," ","3"," ","m","o","n","t","h","s">>)
    /\ v1["total_experience_years"] = PyFloat(500)

----------------------------------------------------------------------------
(* Properties of process_single_resume (checked under SpecDoc)              *)

SupportedExtensions == {<<".","p","d","f">>, <<".","d","o","c","x">>, <<".","d","o","c">>}
Supported(d) == ToLower(Suffix(d.name)) \in SupportedExtensions
\* the text the text tier extracts from the document
ExtractedText(d) ==
    IF ToLower(Suffix(d.name)) = <<".","p","d","f">>
    THEN extract_text_from_pdf(d.pdf).text ELSE d.docx_text
TrimmedLen(text) == Len(Strip(text))
\* the vision request of the document fails
VisionRequestFails(d) ==
    d.vision.setup = "ok" /\ d.vision.images > 0 /\ d.vision.api = "raise"
\* the vision tier returned, and returned no data
VisionReturnsNothing(d) ==
    /\ ~ extract_with_openai_vision(d.vision).raised
    /\ extract_with_openai_vision(d.vision).data = EmptyDict
\* the vision tier gave no data, by returning none or by raising
VisionYieldsNothing(d) == extract_with_openai_vision(d.vision).data = EmptyDict
Processed == outcome # Null /\ Supported(doc)

\* C1: when the vision request of a document fails, extract_with_openai_vision
\* returns an empty result without raising and process_single_resume goes on
\* to the text tier.
C1_VisionFailureFallsThrough ==
    (Processed /\ VisionRequestFails(doc)) =>
        /\ VisionReturnsNothing(doc)
        /\ "text_extract" \in Range(outcome.calls)

\* C2: process_single_resume returns no record only if the vision tier gave
\* no data and the extracted text is shorter than 50 characters after
\* trimming; with at least 50 characters a record is always returned.
C2_NoRecordOnlyForShortText ==
    Processed =>
        /\ ~ outcome.ok =>
              (VisionYieldsNothing(doc) /\ TrimmedLen(ExtractedText(doc)) < MinTextLen)
        /\ TrimmedLen(ExtractedText(doc)) >= MinTextLen => outcome.ok

\* C4: the identity fields of every returned record are the ones the caller
\* assigned: the fresh resume_id, the name of the file and the upload time.
C4_IdentityAssignedByCaller ==
    (Processed /\ outcome.ok) =>
        /\ outcome.record["resume_id"] = generate_resume_id(1)
        /\ outcome.record["file_name"] = PyString(doc.name)
        /\ outcome.record["upload_date"] = PyString(NowStr)

\* C5: when the vision tier returns nothing, the text has at least 50
\* characters after trimming and the text model is unavailable or fails, the
\* record is the output of the rule extractor for the cleaned text, field for
\* field, together with the identity fields.
C5_RuleOutputWhenModelFails ==
    (/\ Processed
     /\ VisionReturnsNothing(doc)
     /\ TrimmedLen(ExtractedText(doc)) >= MinTextLen
     /\ (~ doc.llm.lib \/ doc.llm.raises)) =>
        /\ outcome.ok
        /\ outcome.record =
              MergeDicts(extract_with_rules(PyString(clean_text(ExtractedText(doc)))),
                         Base(doc, 1))

\* the text model was requested for the document and returned its output
TextModelSucceeded ==
    /\ Processed
    /\ "text_model" \in Range(outcome.calls)
    /\ doc.llm.lib
    /\ ~ doc.llm.raises

\* what extract_with_langchain returned for the document
TextTierData == extract_with_langchain(clean_text(ExtractedText(doc)), doc.llm).data

\* C15 as stated: when the text model succeeds, the result of the text tier
\* has the model's value in every field the model set and the rule
\* extractor's value in every field the model left at its default.
C15_BackfilledFieldByField ==
    TextModelSucceeded =>
        LET rule_data == extract_with_rules(PyString(clean_text(ExtractedText(doc))))
        IN  \A k \in DOMAIN doc.llm.output :
                TextTierData[k] = IF IsDefaultValue(doc.llm.output[k])
                                  THEN rule_data[k]
                                  ELSE doc.llm.output[k]

\* how often, and where first, a step occurs in the calls of a document
Count(step, calls) == Cardinality({i \in DOMAIN calls : calls[i] = step})
First(step, calls) == Min({i \in DOMAIN calls : calls[i] = step})
Before(a, b, calls) ==
    (Count(a, calls) > 0 /\ Count(b, calls) > 0) => First(a, calls) < First(b, calls)

\* C17: for each document the vision model is requested at most once, the
\* text is extracted and the text model requested only after the vision tier
\* returned an empty result, the text model is requested at most once, the
\* rule extractor runs only when the text model is unavailable, raised or
\* returned all defaults, and the steps come in the order vision, text
\* extraction, text model, rules.
C17_TiersInOrder ==
    Processed =>
        LET calls == outcome.calls
        IN  /\ Count("vision_request", calls) <= 1
            /\ Count("text_extract", calls) <= 1
            /\ Count("text_model", calls) <= 1
            /\ Count("rules", calls) <= 1
            /\ Count("text_extract", calls) > 0 => VisionReturnsNothing(doc)
            /\ Count("text_model", calls) > 0 =>
                  (VisionReturnsNothing(doc) /\ Count("text_extract", calls) > 0)
            /\ Count("rules", calls) > 0 =>
                  /\ Count("text_extract", calls) > 0
                  /\ \/ ~ doc.llm.lib /\ Count("text_model", calls) = 0
                     \/ doc.llm.lib /\ doc.llm.raises /\ Count("text_model", calls) = 1
                     \/ /\ doc.llm.lib /\ ~ doc.llm.raises /\ Count("text_model", calls) = 1
                        /\ \A k \in DOMAIN doc.llm.output : IsDefaultValue(doc.llm.output[k])
            /\ Before("vision_request", "text_extract", calls)
            /\ Before("text_extract", "text_model", calls)
            /\ Before("text_extract", "rules", calls)
            /\ Before("text_model", "rules", calls)

\* a document went through every tier: the vision model answered without
\* usable data, the text model answered with all defaults, the rules ran
C17_Witness ==
    /\ Processed
    /\ outcome.ok
    /\ doc.llm.lib /\ ~ doc.llm.raises
    /\ outcome.calls = <<"vision_request", "text_extract", "text_model", "rules">>

\* what extract_with_rules gives for the text of the document
RuleData == extract_with_rules(PyString(clean_text(ExtractedText(doc))))
\* every field of the model's record holds the default of the schema
AllSchemaDefaults == \A k \in DOMAIN doc.llm.output : doc.llm.output[k] = FieldDefault(k)
\* every field of the model's record holds 'Not Found', 0.0 or ''
AllDefaultOrEmpty == \A k \in DOMAIN doc.llm.output : IsDefaultValue(doc.llm.output[k])

\* C29 as stated: when every field of the model's record equals its default
\* the text tier returns the rule extractor's output for the same text, and
\* when some field differs from its default the rule extractor is not run
\* and the model's record is returned unchanged.
C29_RulesOnlyOnAllDefaults ==
    TextModelSucceeded =>
        IF AllSchemaDefaults
        THEN TextTierData = RuleData /\ Count("rules", outcome.calls) = 1
        ELSE TextTierData = doc.llm.output /\ Count("rules", outcome.calls) = 0

\* C29 amended: the same with the empty string counted as a default: when
\* every field of the model's record is 'Not Found', 0.0 or '' the text tier
\* returns the rule extractor's output, and when some field holds another
\* value the rule extractor is not run and the record is returned unchanged.
C29_RulesOnlyOnAllDefaultOrEmpty ==
    TextModelSucceeded =>
        IF AllDefaultOrEmpty
        THEN TextTierData = RuleData /\ Count("rules", outcome.calls) = 1
        ELSE TextTierData = doc.llm.output /\ Count("rules", outcome.calls) = 0

\* the model left every field at its default but one that it left empty, and
\* the rules found values in the text
C29_Witness ==
    /\ TextModelSucceeded
    /\ AllDefaultOrEmpty /\ ~ AllSchemaDefaults
    /\ Count("rules", outcome.calls) = 1
    /\ TextTierData = RuleData
    /\ \E k \in DOMAIN RuleData : ~ IsDefaultValue(RuleData[k])

\* the fenced replies of the run, each with the JSON text between its fences
FencedReplies ==
    {[reply |-> Fenced(m, b), body |-> b] :
        m \in {<<>>, <<"j","s","o","n">>}, b \in {JsonPlain, JsonSkill}}

\* the vision model answered the document with a fenced reply
FencedReplyOf(d) ==
    {f \in FencedReplies :
        /\ d.vision.setup = "ok" /\ d.vision.images > 0 /\ d.vision.api = "reply"
        /\ d.vision.content = PyString(f.reply)}

\* C24 as stated: for a JSON object between triple-backtick fences, with or
\* without the marker json, the text handed to the JSON parser is the text
\* between the fences, and the values of the object reach the record as
\* they are.
C24_FencesStrippedOnly ==
    Processed =>
        \A f \in FencedReplyOf(doc) :
            /\ FenceStripped(doc.vision.content) = f.body
            /\ outcome.ok
            /\ \A k \in DOMAIN JsonLoads(f.body).value :
                  outcome.record[k] = JsonLoads(f.body).value[k]

----------------------------------------------------------------------------
(* Properties of process_resumes (checked under Spec)                       *)

\* the vision tier gives nothing for the document and its text is too short
ShortWithoutVision(d) ==
    VisionYieldsNothing(d) /\ TrimmedLen(ExtractedText(d)) < MinTextLen
\* the records of the last batch for the other documents, in order
RecordsOfOthers ==
    LET others == SelectIdx(log.results,
                            {i \in DOMAIN log.results :
                                /\ ~ ShortWithoutVision(log.uploaded_files[i])
                                /\ log.results[i].ok}, 1)
    IN  [i \in DOMAIN others |-> others[i].record]

\* C3: a document for which the vision tier yields nothing and whose text has
\* fewer than 50 characters after trimming gets no record, neither the text
\* model nor the rule extractor runs for it, and the working table after the
\* batch holds the rows it held before and the records of the other documents.
C3_ShortTextRejected ==
    log # Null =>
        /\ \A i \in DOMAIN log.results :
              ShortWithoutVision(log.uploaded_files[i]) =>
                  /\ ~ log.results[i].ok
                  /\ "text_model" \notin Range(log.results[i].calls)
                  /\ "rules" \notin Range(log.results[i].calls)
        /\ processed_data.rows = log.before.rows \o RecordsOfOthers

\* a batch onto a table with rows, with a document of 49 characters that is
\* rejected and another document that is recorded
C3_Witness ==
    /\ log # Null
    /\ log.before.rows # <<>>
    /\ \E i, j \in DOMAIN log.results :
          /\ ShortWithoutVision(log.uploaded_files[i])
          /\ TrimmedLen(ExtractedText(log.uploaded_files[i])) = MinTextLen - 1
          /\ ~ log.results[i].ok
          /\ log.results[j].ok
    /\ Len(processed_data.rows) = Len(log.before.rows) + 1

\* the records of the documents of the last batch that gave one, in upload
\* order
RecordsOfSucceeded ==
    LET done == SelectIdx(log.results, {i \in DOMAIN log.results : log.results[i].ok}, 1)
    IN  [i \in DOMAIN done |-> done[i].record]

\* C16: in a batch every document is processed whatever happened to the
\* documents before it, a document whose processing fails (insufficient
\* text, an exception, an empty extraction) gives no record, and the rows
\* appended to the working table are the records of the documents that
\* succeeded, in upload order.
C16_FailureDoesNotStopBatch ==
    log # Null =>
        /\ DOMAIN log.results = DOMAIN log.uploaded_files
        /\ \A i \in DOMAIN log.results :
              \E alone \in {process_single_resume(log.uploaded_files[i], 1)} :
                  /\ log.results[i].ok = alone.ok
                  /\ log.results[i].why = alone.why
                  /\ ~ log.results[i].ok => log.results[i].record = EmptyDict
        /\ Len(processed_data.rows) =
              Len(log.before.rows) + Cardinality({i \in DOMAIN log.results : log.results[i].ok})
        /\ SubSeq(processed_data.rows, Len(log.before.rows) + 1, Len(processed_data.rows))
              = RecordsOfSucceeded

\* a batch whose first document fails with an exception and whose second
\* document is recorded
C16_Witness ==
    /\ log # Null
    /\ Len(log.results) = 2
    /\ log.results[1].why = "exception"
    /\ log.results[2].ok
    /\ Len(processed_data.rows) = Len(log.before.rows) + 1
    /\ processed_data.rows[Len(processed_data.rows)] = log.results[2].record

\* the rows of the table before the last confirmed deletion whose resume_id
\* was not in the pending selection, in their order
KeptRows ==
    SelectIdx(last_delete.before.rows,
              {i \in DOMAIN last_delete.before.rows :
                  last_delete.before.rows[i]["resume_id"] \notin last_delete.ids}, 1)
\* the table at the default path, as read_excel reads it
PersistedFrame ==
    IF files[DefaultPath].st = "sheet" THEN ReadExcel(files[DefaultPath]) ELSE EmptyFrame

\* C25: after a confirmed deletion the working table holds, unchanged and in
\* their order, the rows of the table before it whose resume_id was not in
\* the pending selection, the persisted table shows the same rows, no row of
\* either carries a resume_id of the selection, and the pending selection is
\* empty.
C25_DeletionRemovesSelected ==
    last_delete # Null =>
        /\ processed_data.rows = KeptRows
        /\ KeptRows # <<>> => processed_data.cols = last_delete.before.cols
        /\ PersistedFrame.cols = last_delete.before.cols
        /\ PersistedFrame.rows =
              [i \in DOMAIN KeptRows |->
                  ShownRow(KeptRows[i], last_delete.before.cols, last_delete.before.cols)]
        /\ ColumnValues(processed_data, "resume_id") \cap last_delete.ids = {}
        /\ ColumnValues(PersistedFrame, "resume_id") \cap last_delete.ids = {}
        /\ pending_delete_ids = {}
        /\ ~ show_confirm_modal

\* one row of a table of three rows was deleted, the rows before it and after
\* it stay
C25_Witness ==
    /\ last_delete # Null
    /\ Len(last_delete.before.rows) = 3
    /\ last_delete.ids = {last_delete.before.rows[2]["resume_id"]}
    /\ processed_data.rows = <<last_delete.before.rows[1], last_delete.before.rows[3]>>
    /\ Len(PersistedFrame.rows) = 2

\* the last operation changed the working table: a batch that gave a record
\* or a confirmed deletion
MutationCompleted ==
    \/ log # Null /\ \E i \in DOMAIN log.results : log.results[i].ok
    \/ last_delete # Null
\* the table that was at the default path before the last batch
PersistedBefore ==
    IF log.persisted.st = "sheet" THEN ReadExcel(log.persisted) ELSE EmptyFrame

\* C26: after a batch that gave a record and after a confirmed deletion the
\* table at the default path shows, row for row, the working table; a batch
\* works on the persisted rows when the working table was empty, so every
\* resume_id that was persisted before a batch is persisted after it.
C26_StoreFollowsTable ==
    /\ MutationCompleted =>
          /\ PersistedFrame.cols = processed_data.cols
          /\ PersistedFrame.rows =
                [i \in DOMAIN processed_data.rows |->
                    ShownRow(processed_data.rows[i], processed_data.cols,
                             processed_data.cols)]
    /\ log # Null =>
          /\ ColumnValues(PersistedBefore, "resume_id")
                \subseteq ColumnValues(log.before, "resume_id")
          /\ ColumnValues(PersistedBefore, "resume_id")
                \subseteq ColumnValues(PersistedFrame, "resume_id")
          /\ Len(PersistedFrame.rows) >= Len(PersistedBefore.rows)

\* a new session with an empty working table and a persisted row processed a
\* batch that gave one record: the store holds the old row and the new one
C26_Witness ==
    /\ log # Null
    /\ Len(PersistedBefore.rows) = 1
    /\ Cardinality({i \in DOMAIN log.results : log.results[i].ok}) = 1
    /\ Len(processed_data.rows) = 2
    /\ Len(PersistedFrame.rows) = 2
    /\ PersistedFrame.rows[1]["resume_id"] = PersistedBefore.rows[1]["resume_id"]

\* no two rows of the frame carry the same resume_id
NoSharedId(df) ==
    "resume_id" \in Range(df.cols) =>
        \A i, j \in DOMAIN df.rows :
            i # j => df.rows[i]["resume_id"] # df.rows[j]["resume_id"]

\* C27: whatever batches were processed and deletions confirmed, no two rows
\* of the working table and no two rows of the persisted table carry the same
\* resume_id (generate_resume_id gives a new value at every call).
C27_NoSharedResumeId ==
    NoSharedId(processed_data) /\ NoSharedId(PersistedFrame)

----------------------------------------------------------------------------
(* Render runs: one file is rendered to page images                         *)

\* a PDF has up to one page more than max_pages
PdfCases ==
    {PdfBytes(FALSE, 0, 0)} \cup
    {PdfBytes(TRUE, n, k) : n \in 0..(max_pages + 1), k \in 0..(max_pages + 1)}

RenderEnvs ==
    [file_type : {"pdf", "docx"},
     pdfium : BOOLEAN,
     Document : BOOLEAN,
     convert : BOOLEAN,
     convert_raises : BOOLEAN,
     soffice : {"raises", "no_pdf", "pdf"},
     reportlab : {"ok", "missing", "raises"},
     pdf : {b \in PdfCases : b.fail_at <= b.page_count}]

InitRender ==
    /\ render \in {e \in RenderEnvs :
                     /\ e.convert_raises => e.convert
                     /\ e.file_type = "pdf" =>
                           /\ e.Document /\ e.convert /\ ~ e.convert_raises
                           /\ e.soffice = "pdf" /\ e.reportlab = "ok"}
    /\ tmp = {}
    /\ images = Null
    /\ raw = << >>
    /\ v1 = Null
    /\ v2 = Null
    /\ files = [p \in Paths |-> Absent]
    /\ dirs = {}
    /\ last_save = Null
    /\ n_saves = 0
    /\ doc = Null
    /\ outcome = Null
    /\ processed_data = EmptyFrame
    /\ next_id = 1
    /\ log = Null
    /\ n_uploaded = 0
    /\ pending_delete_ids = {}
    /\ show_confirm_modal = FALSE
    /\ last_delete = Null
    /\ pdf_file = Null
    /\ pdf_result = Null
    /\ rules_text = None
    /\ rules_data = Null

\* the list of images a renderer returned and the conversions it ran
Rendered(imgs, attempts) ==
    [t |-> "list", s |-> imgs, n |-> Len(imgs), attempts |-> attempts]

\* images = _pdf_to_images(file_bytes)
PdfToImages ==
    /\ images = Null
    /\ render.file_type = "pdf"
    /\ images' = Rendered(pdf_to_images(render, render.pdf), <<>>)
    /\ UNCHANGED <<render, tmp, validateVars, storeVars, docVars, appVars, rulesVars, pdfVars>>

\* images = _docx_to_images(file_bytes)
DocxToImages ==
    /\ images = Null
    /\ render.file_type = "docx"
    /\ \E r \in {docx_to_images(render, tmp)} :
          /\ images' = Rendered(r.images, r.attempts)
          /\ tmp' = r.tmp
    /\ UNCHANGED <<render, validateVars, storeVars, docVars, appVars, rulesVars, pdfVars>>

NextRender == PdfToImages \/ DocxToImages

SpecRender == InitRender /\ [][NextRender]_vars

----------------------------------------------------------------------------
(* Properties of the renderer (checked under SpecRender)                    *)

\* C13 as stated: when _docx_to_images has returned, no temporary file that
\* the call created exists any more, whichever conversion ran.
C13_NoTemporaryFileLeft ==
    (images # Null /\ render.file_type = "docx") => tmp = {}

\* the pages _pdf_to_images is asked for, in document order
PagesAsked(pdf_bytes) ==
    [i \in 1..Min({pdf_bytes.page_count, max_pages}) |-> i]

\* C14 as stated: the result of _pdf_to_images is either one image for each
\* of the first min(page_count, max_pages) pages, in order, or empty.
C14_AllPagesOrNone ==
    (images # Null /\ render.file_type = "pdf") =>
        images.s \in {PagesAsked(render.pdf), <<>>}

\* the conversion strategies of _docx_to_images, in their order
StrategyOrder == <<"soffice", "docx2pdf", "alternative">>
StrategyRank(st) == CHOOSE i \in DOMAIN StrategyOrder : StrategyOrder[i] = st

\* the strategy was run and did not give a PDF to render; docx2pdf also
\* counts as failed when it was reached and is not installed
RanAndFailed(st) ==
    CASE st = "soffice" ->
            "soffice" \in Range(images.attempts) /\ render.soffice # "pdf"
      [] st = "docx2pdf" ->
            \/ "docx2pdf" \in Range(images.attempts) /\ render.convert_raises
            \/ /\ "soffice" \in Range(images.attempts)
               /\ render.soffice # "pdf"
               /\ ~ render.convert
      [] st = "alternative" ->
            /\ "alternative" \in Range(images.attempts)
            /\ ~ render.Document \/ ~ render.pdfium \/ render.reportlab # "ok"

\* C23 as stated: for a DOCX the conversions run in the order LibreOffice,
\* docx2pdf, synthetic-PDF builder, each only after every earlier one was
\* run and failed, and the result is empty only if every one of them failed.
C23_StrategiesInOrder ==
    (images # Null /\ render.file_type = "docx") =>
        /\ \A i, j \in DOMAIN images.attempts :
              i < j => StrategyRank(images.attempts[i]) < StrategyRank(images.attempts[j])
        /\ \A i \in DOMAIN images.attempts :
              \A k \in 1..(StrategyRank(images.attempts[i]) - 1) :
                  RanAndFailed(StrategyOrder[k])
        /\ images.s = <<>> =>
              \A k \in DOMAIN StrategyOrder : RanAndFailed(StrategyOrder[k])

----------------------------------------------------------------------------
(* Rules runs: extract_with_rules is applied to a text of up to MaxLines    *)
(* lines, to the empty string and to None                                   *)

MaxLines == 2

RuleLines ==
    {<<"A","n","n"," ","L","e","e">>,
     <<"S","u","m","m","a","r","y">>,
     <<" ","s","k","i","l","l","s",":"," ","G","o",","," ","S","Q","L",";","G","o">>,
     <<"S","k","i","l","l","s">>,
     <<"a","n","n","@","x",".","i","o">>,
     <<"+","1"," ","5","5","5"," ","1","2","3"," ","4","5","6","7">>,
     <<"B",".","T","e","c","h"," ","2","0","1","9">>,
     <<"L","i","n","k","e","d","I","n",".","c","o","m","/","a"," ","g","i","t","h","u","b",".","c","o","m","/","a">>,
     <<" ","\t">>}

RuleTexts ==
    {PyString(Join(ls, <<"\n">>)) : ls \in SeqsUpTo(RuleLines, MaxLines)} \cup {None}

InitRules ==
    /\ rules_text \in RuleTexts
    /\ rules_data = Null
    /\ render = Null
    /\ tmp = {}
    /\ images = Null
    /\ raw = << >>
    /\ v1 = Null
    /\ v2 = Null
    /\ files = [p \in Paths |-> Absent]
    /\ dirs = {}
    /\ last_save = Null
    /\ n_saves = 0
    /\ doc = Null
    /\ outcome = Null
    /\ processed_data = EmptyFrame
    /\ next_id = 1
    /\ log = Null
    /\ n_uploaded = 0
    /\ pending_delete_ids = {}
    /\ show_confirm_modal = FALSE
    /\ last_delete = Null
    /\ pdf_file = Null
    /\ pdf_result = Null

\* data = extract_with_rules(resume_text)
ExtractWithRules ==
    /\ rules_data = Null
    /\ rules_data' = extract_with_rules(rules_text)
    /\ UNCHANGED <<rules_text, validateVars, storeVars, docVars, appVars, renderVars, pdfVars>>

NextRules == ExtractWithRules

SpecRules == InitRules /\ [][NextRules]_vars

----------------------------------------------------------------------------
(* Properties of the rule extractor (checked under SpecRules)               *)

\* the text the rules read: resume_text or ""
RulesText == IF rules_text.t = "str" THEN rules_text.s ELSE EmptyStr

\* the fields for which the text holds nothing a rule could match
Unmatched ==
    LET text == RulesText
        lowered == ToLower(text)
    IN  {k \in ExtractedFields :
            CASE k = "email" -> "@" \notin Range(text)
              [] k = "phone" -> Cardinality({i \in DOMAIN text : text[i] \in Digit}) < 10
              [] k = "linkedin" -> ~ Contains(lowered, <<"l","i","n","k","e","d","i","n",".","c","o","m">>)
              [] k = "github" -> ~ Contains(lowered, <<"g","i","t","h","u","b",".","c","o","m">>)
              [] k = "name" -> \A i \in DOMAIN text : text[i] \in Space
              [] k = "highest_degree" ->
                    ~ \E w \in {<<"p","h","d">>, <<"d","o","c","t","o","r">>, <<"m","s">>,
                                  <<"m",".","s">>, <<"m",".","t","e","c","h">>,
                                  <<"m","t","e","c","h">>, <<"b","s">>, <<"b",".","s">>,
                                  <<"b",".","t","e","c","h">>, <<"b","t","e","c","h">>} :
                         Contains(lowered, w)
              [] k = "graduation_year" -> YearStarts(text) = {}
              [] k = "technical_skills" -> ~ Contains(lowered, <<"s","k","i","l","l","s">>)
              [] OTHER -> TRUE}

\* C18: for every text, the empty string and None included, extract_with_rules
\* returns a mapping with each of the 19 extracted fields, and a field for
\* which the text holds no match has its default: 0.0 for
\* total_experience_years and 'Not Found' for the others.
C18_RulesReturnEveryField ==
    rules_data # Null =>
        /\ DOMAIN rules_data = ExtractedFields
        /\ Cardinality(DOMAIN rules_data) = 19
        /\ \A k \in Unmatched :
              rules_data[k] = IF k = "total_experience_years" THEN PyFloat(0) ELSE NotFound

\* the rules ran on a text in which some fields match and others do not
C18_Witness ==
    /\ rules_data # Null
    /\ rules_text.t = "str"
    /\ rules_data["email"] # NotFound
    /\ rules_data["name"] # NotFound
    /\ "phone" \in Unmatched
    /\ rules_data["phone"] = NotFound

----------------------------------------------------------------------------
(* PDF runs: extract_text_from_pdf reads one file                           *)

Text20 == TextOfLen(NameOnly, 20)
Text21 == TextOfLen(NameOnly, 21)

\* what a digital-text strategy can give: page texts, and an exception or not
StrategyCases ==
    {[text |-> t, raised |-> r] : t \in {<<>>, Text30, Text49, Text50, Text51},
                                  r \in BOOLEAN}

PdfFiles ==
    {Pdf(a, b, o) : a \in StrategyCases, b \in StrategyCases,
                    o \in {<<>>, Text20, Text21}}

InitPdf ==
    /\ pdf_file \in PdfFiles
    /\ pdf_result = Null
    /\ rules_text = None
    /\ rules_data = Null
    /\ render = Null
    /\ tmp = {}
    /\ images = Null
    /\ raw = << >>
    /\ v1 = Null
    /\ v2 = Null
    /\ files = [p \in Paths |-> Absent]
    /\ dirs = {}
    /\ last_save = Null
    /\ n_saves = 0
    /\ doc = Null
    /\ outcome = Null
    /\ processed_data = EmptyFrame
    /\ next_id = 1
    /\ log = Null
    /\ n_uploaded = 0
    /\ pending_delete_ids = {}
    /\ show_confirm_modal = FALSE
    /\ last_delete = Null

\* text = extract_text_from_pdf(file_content)
ExtractTextFromPdf ==
    /\ pdf_result = Null
    /\ pdf_result' = extract_text_from_pdf(pdf_file)
    /\ UNCHANGED <<pdf_file, validateVars, storeVars, docVars, appVars, renderVars,
                   rulesVars>>

NextPdf == ExtractTextFromPdf

SpecPdf == InitPdf /\ [][NextPdf]_vars

----------------------------------------------------------------------------
(* Properties of extract_text_from_pdf (checked under SpecPdf)              *)

Attempted(strategy) == strategy \in Range(pdf_result.attempts)

\* C22 as stated: the second digital-text strategy is attempted exactly when
\* the text of the first has fewer than 50 characters, and OCR exactly when
\* the text of the second has fewer than 50 characters as well; a strategy
\* whose text has 50 characters or more ends the extraction.
C22_LaterStrategyOnlyBelow50 ==
    pdf_result # Null =>
        /\ Attempted("pdfplumber")
        /\ Attempted("PyPDF2") <=> TrimmedLen(pdf_file.plumber.text) < 50
        /\ Attempted("ocr") <=>
              /\ TrimmedLen(pdf_file.plumber.text) < 50
              /\ TrimmedLen(pdf_file.pypdf.text) < 50
        /\ TrimmedLen(pdf_file.plumber.text) >= 50 =>
              pdf_result.text = pdf_file.plumber.text

\* C30 as stated: the text returned is the output of one strategy alone.
C30_TextOfSingleStrategy ==
    pdf_result # Null =>
        pdf_result.text \in {pdf_file.plumber.text, pdf_file.pypdf.text, pdf_file.ocr}

====
